---- MODULE Spec2Model ----
(***************************************************************************)
(* DuckGuard: rule execution and validation statistics engine.             *)
(*                                                                         *)
(* The module models                                                       *)
(*   - the rule executor (rules/executor.py): RuleExecutor.execute and the *)
(*     per-check handlers, CheckResult and ExecutionResult;                *)
(*   - the statistics layer (core/engine.py, core/column.py,               *)
(*     core/dataset.py): get_column_stats, get_all_column_stats and the    *)
(*     caches of Dataset and Column.                                       *)
(*                                                                         *)
(* Representation of values.                                               *)
(*   A table cell is <<>> for SQL NULL and <<v>> for the integer v.        *)
(*   A Python value (Check.value, a statistic) is a record                 *)
(*   [kind, n, d, items]: None, a number n/d (an int has d = 1; a float    *)
(*   percentage keeps numerator and denominator, which agrees with the     *)
(*   IEEE result for the row counts used here when it is compared with an  *)
(*   integer threshold), a string, or a list of integers.                  *)
(***************************************************************************)
EXTENDS Integers, Sequences, FiniteSets, TLC

VARIABLES
    data,          \* the source relation: a sequence of rows, row = [column -> cell]
    ruleset,       \* RuleSet: [table |-> Seq(Check), columns |-> Seq([name, checks])]
    pc,            \* position of RuleExecutor.execute
    ti,            \* index of the next table-level check
    ci,            \* index of the next entry of ruleset.columns
    ki,            \* index of the next check of the current column
    results,       \* ExecutionResult.results
    finished_at,   \* ExecutionResult.finished_at (FALSE = None)
    statFetches,   \* per column: get_column_stats queries issued during the run
    ds_row_count_cache,  \* Dataset._row_count_cache (<<>> = None)
    ds_columns_cache,    \* Dataset._columns_cache (<<>> = None, else <<list>>)
    colobjs,       \* the Column objects handed out by Dataset.__getitem__
    schema,        \* the column list the source has at the moment
    lastRead,      \* the latest read of a cached value and what it returned
    cmpIn,         \* the arguments of the pending or latest threshold comparison
    cmpOut,        \* its outcome: what _compare did and the CheckResult of the check
    statCols,      \* the column list passed to get_all_column_stats
    batchStats,    \* what get_all_column_stats returned
    singleStats,   \* what get_column_stats returned, per column
    queryLog,      \* the queries the two statistics calls handed to the connection
    refData,       \* the relation of the reference (or other) column of a validation
    valCall,       \* the latest Column validation call: method and arguments
    valOut,        \* <<the ValidationResult it returned>> (<<>> before any call)
    valPrev,       \* <<call, result>> of the between call that preceded a between call
    target,        \* the relation of the target dataset of reconcile
    recCall,       \* the arguments of the latest reconcile call
    recOut,        \* <<the ReconciliationResult it returned>> (<<>> before any call)
    score,         \* the quality score handed to HTMLReporter._score_to_grade
    grade,         \* <<the letter it returned>> (<<>> before the call)
    reference,     \* the relation of the reference dataset of detect_drift
    driftCall,     \* the arguments of the latest detect_drift call
    driftOut,      \* <<the DriftResult it returned>> (<<>> before any call)
    grpCall,       \* the latest call on a GroupedDataset: method and arguments
    grpOut         \* <<what it returned>> (<<>> before any call)

vars == <<data, ruleset, pc, ti, ci, ki, results, finished_at, statFetches,
          ds_row_count_cache, ds_columns_cache, colobjs, schema, lastRead,
          cmpIn, cmpOut, statCols, batchStats, singleStats, queryLog,
          refData, valCall, valOut, valPrev,
          target, recCall, recOut, score, grade,
          reference, driftCall, driftOut, grpCall, grpOut>>

execVars  == <<ruleset, pc, ti, ci, ki, results, finished_at, statFetches>>
cacheVars == <<ds_row_count_cache, ds_columns_cache, colobjs, schema, lastRead>>
cmpVars   == <<cmpIn, cmpOut>>
statVars  == <<statCols, batchStats, singleStats, queryLog>>
valVars   == <<refData, valCall, valOut, valPrev>>
recVars   == <<target, recCall, recOut>>
gradeVars == <<score, grade>>
driftVars == <<reference, driftCall, driftOut>>
groupVars == <<grpCall, grpOut>>

----------------------------------------------------------------------------
(* Bounds *)

MaxRows == 2          \* rows of the source relation
MaxChecks == 2        \* checks in a rule set, table-level and column-level together
MaxColumnObjs == 2    \* Column objects created through Dataset.__getitem__
MaxStatCols == 2      \* length of the column list given to get_all_column_stats

----------------------------------------------------------------------------
(* Sequences and cells *)

NULL == <<>>
Cell(v) == <<v>>
IsNull(c) == c = NULL

Values == {0, 1}
Cells == {NULL} \cup {Cell(v) : v \in Values}

DsColumns == <<"a", "b">>
DsColumnSet == {DsColumns[i] : i \in 1..Len(DsColumns)}

Rows == [DsColumnSet -> Cells]

RECURSIVE SeqsUpTo(_, _)
SeqsUpTo(S, n) ==
    IF n = 0 THEN {<<>>}
    ELSE LET shorter == SeqsUpTo(S, n - 1)
         IN shorter \cup {Append(s, x) : s \in {t \in shorter : Len(t) = n - 1}, x \in S}

Tables == SeqsUpTo(Rows, MaxRows)

Range(s) == {s[i] : i \in 1..Len(s)}

RECURSIVE SumSeq(_)
SumSeq(s) == IF s = <<>> THEN 0 ELSE s[1] + SumSeq(Tail(s))

SetMin(S) == CHOOSE x \in S : \A y \in S : x <= y
SetMax(S) == CHOOSE x \in S : \A y \in S : x >= y

----------------------------------------------------------------------------
(* core/engine.py: the aggregate queries of DuckGuardEngine *)

\* SQL COUNT(*), COUNT(col), COUNT(DISTINCT col), MIN(col), MAX(col)
SqlCountStar(tbl) == Len(tbl)
SqlCount(tbl, c) == Cardinality({i \in 1..Len(tbl) : ~IsNull(tbl[i][c])})
NonNullValues(tbl, c) == {tbl[i][c][1] : i \in {j \in 1..Len(tbl) : ~IsNull(tbl[j][c])}}
SqlCountDistinct(tbl, c) == Cardinality(NonNullValues(tbl, c))
SqlMin(tbl, c) == IF NonNullValues(tbl, c) = {} THEN NULL ELSE Cell(SetMin(NonNullValues(tbl, c)))
SqlMax(tbl, c) == IF NonNullValues(tbl, c) = {} THEN NULL ELSE Cell(SetMax(NonNullValues(tbl, c)))

\* x / total * 100 when total > 0, else 0.0; kept as the fraction (x * 100) / total
Percent(x, total) == IF total > 0 THEN [n |-> x * 100, d |-> total] ELSE [n |-> 0, d |-> 1]

StatsDict(total, non_null, null_count, unique_count, min_val, max_val) ==
    [total_count    |-> total,
     non_null_count |-> non_null,
     null_count     |-> null_count,
     null_percent   |-> Percent(null_count, total),
     unique_count   |-> unique_count,
     unique_percent |-> Percent(unique_count, total),
     min_value      |-> min_val,
     max_value      |-> max_val]

\* the single row the query of get_column_stats returns
ColumnStatsRow(tbl, c) ==
    <<SqlCountStar(tbl), SqlCount(tbl, c), SqlCountStar(tbl) - SqlCount(tbl, c),
      SqlCountDistinct(tbl, c), SqlMin(tbl, c), SqlMax(tbl, c)>>

get_column_stats(tbl, c) ==
    LET row == ColumnStatsRow(tbl, c)
    IN StatsDict(row[1], row[2], row[3], row[4], row[5], row[6])

\* the select list of get_all_column_stats: _total_count, then four aggregates per column
RECURSIVE AllStatsRow(_, _)
AllStatsRow(tbl, cols) ==
    IF cols = <<>> THEN <<SqlCountStar(tbl)>>
    ELSE LET c == cols[Len(cols)]
         IN AllStatsRow(tbl, SubSeq(cols, 1, Len(cols) - 1))
              \o <<SqlCount(tbl, c), SqlCountDistinct(tbl, c), SqlMin(tbl, c), SqlMax(tbl, c)>>

\* variant: the walk over the row never advances (idx += 4 is missing)
StatsIdx_neverAdvanced(k) == 2

\* offset of the first aggregate of the k-th column in that row (idx = 1; idx += 4)
StatsIdx(k) == 2 + 4 * (k - 1)

\* the entry written for the k-th column of the list
AllStatsEntry(row, k) ==
    LET total == row[1]
        idx == StatsIdx(k)
        non_null == row[idx]
    IN StatsDict(total, non_null, total - non_null, row[idx + 1], row[idx + 2], row[idx + 3])

\* result[col_name] = {...}: a later occurrence of a name overwrites an earlier one
get_all_column_stats(tbl, cols) ==
    IF cols = <<>> THEN <<>>
    ELSE LET row == AllStatsRow(tbl, cols)
             last(c) == SetMax({k \in 1..Len(cols) : cols[k] = c})
         IN [c \in Range(cols) |-> AllStatsEntry(row, last(c))]

get_row_count(tbl) == SqlCountStar(tbl)

\* A query handed to fetch_one is recorded as [by |-> the method, cols |-> the
\* columns its select list aggregates].
Query(by, cols) == [by |-> by, cols |-> cols]

\* get_column_stats: one fetch_one per call
ColumnStatsQueries(c) == <<Query("get_column_stats", <<c>>)>>

\* variant: one scan per column of the list
AllStatsQueries_perColumn(cols) ==
    [k \in 1..Len(cols) |-> Query("get_all_column_stats", <<cols[k]>>)]

\* get_all_column_stats: `if not columns: return {}` before any SQL, otherwise
\* the select parts of all columns are joined into one statement, fetched once
AllStatsQueries(cols) ==
    IF cols = <<>> THEN <<>> ELSE <<Query("get_all_column_stats", cols)>>

----------------------------------------------------------------------------
(* Python values *)

PyNone == [kind |-> "none", n |-> 0, d |-> 1, items |-> <<>>]
PyInt(i) == [kind |-> "num", n |-> i, d |-> 1, items |-> <<>>]
PyFloat(f) == [kind |-> "num", n |-> f.n, d |-> f.d, items |-> <<>>]
PyStr == [kind |-> "str", n |-> 0, d |-> 1, items |-> <<>>]
PyList(xs) == [kind |-> "list", n |-> 0, d |-> 1, items |-> xs]
PyOfCell(c) == IF IsNull(c) THEN PyNone ELSE PyInt(c[1])

IsNum(v) == v.kind = "num"
\* a == e, a < e on Python values; numbers compare by cross-multiplication (d > 0)
PyEq(a, e) == IF IsNum(a) /\ IsNum(e) THEN a.n * e.d = e.n * a.d ELSE a = e
NumLt(a, e) == a.n * e.d < e.n * a.d

\* a Python call either returns a value or raises
Return(v) == [raised |-> FALSE, exc |-> "", val |-> v]
Raise(e) == [raised |-> TRUE, exc |-> e, val |-> FALSE]

----------------------------------------------------------------------------
(* rules/schema.py: Severity, CheckType, Check *)

ERROR == "error"
WARNING == "warning"
INFO == "info"
Severity == {ERROR, WARNING, INFO}

Operators == {"=", "==", "!=", "<>", "<", ">", "<=", ">="}

Check(type, value, operator, severity, enabled) ==
    [type |-> type, value |-> value, operator |-> operator,
     severity |-> severity, enabled |-> enabled]

----------------------------------------------------------------------------
(* rules/executor.py: CheckResult, ExecutionResult *)

NoColumn == <<>>

CheckResult(check, column, passed, actual_value, expected_value, message, severity) ==
    [check |-> check, column |-> column, passed |-> passed,
     actual_value |-> actual_value, expected_value |-> expected_value,
     message |-> <<message, "">>, severity |-> severity]

\* variant: every failing result counts as a hard failure
is_failure_anySeverity(r) == ~r.passed

is_failure(r) == ~r.passed /\ r.severity = ERROR

status(r) ==
    IF r.passed THEN "PASSED"
    ELSE IF r.severity = WARNING THEN "WARNING"
    ELSE IF r.severity = INFO THEN "INFO"
    ELSE "FAILED"

ExecutionResult_passed(rs) == ~(\E i \in 1..Len(rs) : is_failure(rs[i]))
total_checks(rs) == Len(rs)
passed_count(rs) == Cardinality({i \in 1..Len(rs) : rs[i].passed})
failed_count(rs) == Cardinality({i \in 1..Len(rs) : is_failure(rs[i])})
warning_count(rs) == Cardinality({i \in 1..Len(rs) : ~rs[i].passed /\ rs[i].severity = WARNING})

\* variant: the score counts every result that is not a hard failure
quality_score_countsNonFailures(rs) ==
    IF rs = <<>> THEN [n |-> 100, d |-> 1]
    ELSE [n |-> (total_checks(rs) - failed_count(rs)) * 100, d |-> total_checks(rs)]

\* (passed_count / total_checks) * 100 as the fraction (passed_count * 100) / total_checks;
\* 100.0 for an empty result list
quality_score(rs) ==
    IF rs = <<>> THEN [n |-> 100, d |-> 1]
    ELSE [n |-> passed_count(rs) * 100, d |-> total_checks(rs)]

----------------------------------------------------------------------------
(* rules/executor.py: RuleExecutor._compare *)

\* variant: None is only rejected by the operator that is applied, so != and
\* <> see two different values
_compare_failOpen(actual, expected, operator) ==
    LET op == IF operator \in Operators THEN operator ELSE "="
    IN IF op \in {"!=", "<>"} THEN Return(~PyEq(actual, expected))
       ELSE IF actual.kind = "none" \/ expected.kind = "none" THEN Return(FALSE)
       ELSE IF op \in {"=", "=="} THEN Return(PyEq(actual, expected))
       ELSE IF ~(IsNum(actual) /\ IsNum(expected)) THEN Raise("TypeError")
       ELSE IF op = "<" THEN Return(NumLt(actual, expected))
       ELSE IF op = ">" THEN Return(NumLt(expected, actual))
       ELSE IF op = "<=" THEN Return(~NumLt(expected, actual))
       ELSE Return(~NumLt(actual, expected))

_compare(actual, expected, operator) ==
    IF actual.kind = "none" \/ expected.kind = "none" THEN Return(FALSE)
    ELSE LET op == IF operator \in Operators THEN operator ELSE "="
         IN IF op \in {"=", "=="} THEN Return(PyEq(actual, expected))
            ELSE IF op \in {"!=", "<>"} THEN Return(~PyEq(actual, expected))
            ELSE IF ~(IsNum(actual) /\ IsNum(expected)) THEN Raise("TypeError")
            ELSE IF op = "<" THEN Return(NumLt(actual, expected))
            ELSE IF op = ">" THEN Return(NumLt(expected, actual))
            ELSE IF op = "<=" THEN Return(~NumLt(expected, actual))
            ELSE Return(~NumLt(actual, expected))

----------------------------------------------------------------------------
(* core/column.py, core/result.py: the validations of Column *)

\* column.py:13
DEFAULT_SAMPLE_SIZE == 10

\* result.py: FailedRow; value is the cell read back (NULL for None)
FailedRow(row_index, column, value) ==
    [row_index |-> row_index, column |-> column, value |-> value]

\* result.py: ValidationResult; failed_rows defaults to [] and total_failures to 0
ValidationResult(passed, actual_value, message, failed_rows, total_failures) ==
    [passed |-> passed, actual_value |-> actual_value, message |-> message,
     failed_rows |-> failed_rows, total_failures |-> total_failures]

\* the rows that pass WHERE col IS NOT NULL
NonNullRows(tbl, c) == {i \in 1..Len(tbl) : ~IsNull(tbl[i][c])}

\* the rows that pass WHERE col IS NULL
NullRows(tbl, c) == {i \in 1..Len(tbl) : IsNull(tbl[i][c])}

\* the row numbers of a set of rows in the order the scan delivers them
ScanOrder(S) ==
    [k \in 1..Cardinality(S) |-> CHOOSE i \in S : Cardinality({j \in S : j < i}) = k - 1]

\* SELECT row_number() OVER () as row_idx, col as val FROM ref WHERE <hits> LIMIT limit:
\* the window numbers the rows that passed the WHERE clause, then LIMIT cuts
SampleQuery(tbl, c, hits, limit) ==
    LET scan == ScanOrder(hits)
        n == IF Len(scan) < limit THEN Len(scan) ELSE limit
    IN [k \in 1..n |-> <<k, tbl[scan[k]][c]>>]

\* [FailedRow(row_index=row[0], column=self._name, value=row[1], ...) for row in rows]
FailedRowsOf(c, rows) == [k \in 1..Len(rows) |-> FailedRow(rows[k][1], c, rows[k][2])]

\* col::VARCHAR of a non-negative integer: its decimal digits
RECURSIVE CastVarchar(_)
CastVarchar(v) == IF v < 10 THEN <<v>> ELSE CastVarchar(v \div 10) \o <<v % 10>>

\* regexp_matches(text, pattern) for the patterns used here
regexp_matches(text, pattern) ==
    IF pattern = "^1" THEN text[1] = 1
    ELSE IF pattern = "0$" THEN text[Len(text)] = 0
    ELSE IF pattern = "^[0-9]$" THEN Len(text) = 1
    ELSE FALSE

\* WHERE col IS NOT NULL AND (col < min_val OR col > max_val)
BetweenViolations(tbl, c, min_val, max_val) ==
    {i \in NonNullRows(tbl, c) : tbl[i][c][1] < min_val \/ tbl[i][c][1] > max_val}

_get_failed_rows_between(tbl, c, min_val, max_val, limit) ==
    FailedRowsOf(c, SampleQuery(tbl, c, BetweenViolations(tbl, c, min_val, max_val), limit))

\* variant: the count takes the rows inside the range
Column_between_countsInside(tbl, c, min_val, max_val, capture_failures) ==
    LET inside == NonNullRows(tbl, c) \ BetweenViolations(tbl, c, min_val, max_val)
    IN ValidationResult(Cardinality(inside) = 0, Cardinality(inside), "values outside range",
                        <<>>, Cardinality(inside))

Column_between(tbl, c, min_val, max_val, capture_failures) ==
    LET out_of_range == Cardinality(BetweenViolations(tbl, c, min_val, max_val))
        passed == out_of_range = 0
        failed_rows == IF ~passed /\ capture_failures
                       THEN _get_failed_rows_between(tbl, c, min_val, max_val, DEFAULT_SAMPLE_SIZE)
                       ELSE <<>>
    IN ValidationResult(passed, out_of_range, "values outside range", failed_rows, out_of_range)

\* WHERE col IS NOT NULL AND NOT regexp_matches(col::VARCHAR, pattern)
PatternViolations(tbl, c, pattern) ==
    {i \in NonNullRows(tbl, c) : ~regexp_matches(CastVarchar(tbl[i][c][1]), pattern)}

_get_failed_rows_pattern(tbl, c, pattern, limit) ==
    FailedRowsOf(c, SampleQuery(tbl, c, PatternViolations(tbl, c, pattern), limit))

matches(tbl, c, pattern, capture_failures) ==
    LET non_matching == Cardinality(PatternViolations(tbl, c, pattern))
        passed == non_matching = 0
        failed_rows == IF ~passed /\ capture_failures
                       THEN _get_failed_rows_pattern(tbl, c, pattern, DEFAULT_SAMPLE_SIZE)
                       ELSE <<>>
    IN ValidationResult(passed, non_matching, "values not matching pattern",
                        failed_rows, non_matching)

\* WHERE col IS NOT NULL AND col NOT IN (v1, v2, ...), for a non-empty list of integers
IsinViolations(tbl, c, values) ==
    {i \in NonNullRows(tbl, c) : tbl[i][c][1] \notin Range(values)}

_get_failed_rows_isin(tbl, c, values, limit) ==
    FailedRowsOf(c, SampleQuery(tbl, c, IsinViolations(tbl, c, values), limit))

isin(tbl, c, values, capture_failures) ==
    LET invalid_count == Cardinality(IsinViolations(tbl, c, values))
        passed == invalid_count = 0
        failed_rows == IF ~passed /\ capture_failures
                       THEN _get_failed_rows_isin(tbl, c, values, DEFAULT_SAMPLE_SIZE)
                       ELSE <<>>
    IN ValidationResult(passed, invalid_count, "values not in allowed set",
                        failed_rows, invalid_count)

has_no_duplicates(tbl, c) ==
    LET st == get_column_stats(tbl, c)
        duplicates == st.total_count - st.unique_count
    IN ValidationResult(duplicates = 0, duplicates, "duplicate values", <<>>, 0)

\* variant: WHERE col <= value, without the IS NOT NULL conjunct (NULL rows kept)
greater_than_countsNulls(tbl, c, value) ==
    LET invalid_count ==
            Cardinality({i \in 1..Len(tbl) : IsNull(tbl[i][c]) \/ tbl[i][c][1] <= value})
    IN ValidationResult(invalid_count = 0, invalid_count, "values <= value", <<>>, 0)

greater_than(tbl, c, value) ==
    LET invalid_count == Cardinality({i \in NonNullRows(tbl, c) : tbl[i][c][1] <= value})
    IN ValidationResult(invalid_count = 0, invalid_count, "values <= value", <<>>, 0)

less_than(tbl, c, value) ==
    LET invalid_count == Cardinality({i \in NonNullRows(tbl, c) : tbl[i][c][1] >= value})
    IN ValidationResult(invalid_count = 0, invalid_count, "values >= value", <<>>, 0)

\* WHERE col IS NOT NULL AND (LENGTH(col::VARCHAR) < min_len OR LENGTH(col::VARCHAR) > max_len)
value_lengths_between(tbl, c, min_len, max_len) ==
    LET invalid_count ==
            Cardinality({i \in NonNullRows(tbl, c) :
                            \/ Len(CastVarchar(tbl[i][c][1])) < min_len
                            \/ Len(CastVarchar(tbl[i][c][1])) > max_len})
    IN ValidationResult(invalid_count = 0, invalid_count, "values with length outside range",
                        <<>>, 0)

\* variant: the anti-join without s.col IS NOT NULL
Orphans_nullsAreOrphans(tbl, c, ref, rc) ==
    {i \in 1..Len(tbl) : \A j \in NonNullRows(ref, rc) : ref[j][rc] # tbl[i][c]}

\* s.col IS NOT NULL AND NOT EXISTS (SELECT 1 FROM ref r WHERE r.ref_col = s.col):
\* a NULL of the reference column equals nothing
Orphans(tbl, c, ref, rc) ==
    {i \in NonNullRows(tbl, c) : \A j \in NonNullRows(ref, rc) : ref[j][rc] # tbl[i][c]}

_get_failed_rows_exists_in(tbl, c, ref, rc, limit) ==
    FailedRowsOf(c, SampleQuery(tbl, c, Orphans(tbl, c, ref, rc), limit))

exists_in(tbl, c, ref, rc, capture_failures) ==
    LET orphan_count == Cardinality(Orphans(tbl, c, ref, rc))
        passed == orphan_count = 0
        failed_rows == IF ~passed /\ capture_failures
                       THEN _get_failed_rows_exists_in(tbl, c, ref, rc, DEFAULT_SAMPLE_SIZE)
                       ELSE <<>>
    IN ValidationResult(passed, orphan_count, "values not found in reference",
                        failed_rows, orphan_count)

\* SELECT row_number() OVER () as row_idx FROM ref WHERE col IS NULL LIMIT limit
_get_null_rows_sample(tbl, c, limit) ==
    LET rows == SampleQuery(tbl, c, NullRows(tbl, c), limit)
    IN [k \in 1..Len(rows) |-> FailedRow(rows[k][1], c, NULL)]

\* variant: the null rows are not added to the failures
references_ignoreNulls(tbl, c, ref, rc, allow_nulls, capture_failures) ==
    exists_in(tbl, c, ref, rc, capture_failures)

\* null_count is Column.null_count, read from the statistics of the column
references(tbl, c, ref, rc, allow_nulls, capture_failures) ==
    LET result == exists_in(tbl, c, ref, rc, capture_failures)
        null_count == get_column_stats(tbl, c).null_count
    IN IF ~allow_nulls /\ null_count > 0
       THEN LET total_failures == result.actual_value + null_count
                null_failed_rows == IF capture_failures /\ null_count > 0
                                    THEN _get_null_rows_sample(tbl, c, DEFAULT_SAMPLE_SIZE)
                                    ELSE <<>>
            IN ValidationResult(total_failures = 0, total_failures, "orphans and nulls",
                                result.failed_rows \o null_failed_rows, total_failures)
       ELSE result

\* SELECT DISTINCT s.col ... WHERE s.col IS NOT NULL AND NOT EXISTS (... o.col = s.col)
DistinctOrphanValues(tbl, c, other, oc) == {tbl[i][c][1] : i \in Orphans(tbl, c, other, oc)}

\* the distinct values are listed in ascending order here; the claims use only
\* how many there are.  row_index=idx + 1 over enumerate(rows)
_get_failed_rows_matches_values(tbl, c, other, oc, limit) ==
    LET vals == ScanOrder(DistinctOrphanValues(tbl, c, other, oc))
        n == IF Len(vals) < limit THEN Len(vals) ELSE limit
    IN [k \in 1..n |-> FailedRow(k, c, Cell(vals[k]))]

matches_values(tbl, c, other, oc, capture_failures) ==
    LET missing_count == Cardinality(DistinctOrphanValues(tbl, c, other, oc))
        extra_count == Cardinality(DistinctOrphanValues(other, oc, tbl, c))
        total_diff == missing_count + extra_count
        passed == total_diff = 0
        failed_rows == IF ~passed /\ capture_failures
                       THEN _get_failed_rows_matches_values(tbl, c, other, oc, DEFAULT_SAMPLE_SIZE)
                       ELSE <<>>
    IN ValidationResult(passed, total_diff, "values missing or extra in other column",
                        failed_rows, total_diff)

----------------------------------------------------------------------------
(* rules/executor.py: the check handlers.  Each returns Return(CheckResult) *)
(* or Raise(exception), as the Python method does.                          *)

_check_row_count(tbl, check) ==
    LET actual == PyInt(get_row_count(tbl))
        cmp == _compare(actual, check.value, check.operator)
    IN IF cmp.raised THEN Raise(cmp.exc)
       ELSE Return(CheckResult(check, NoColumn, cmp.val, actual,
                               <<check.operator, check.value>>, "Row count is", check.severity))

_check_not_null(tbl, c, check) ==
    LET null_count == get_column_stats(tbl, c).null_count
        passed == null_count = 0
    IN Return(CheckResult(check, <<c>>, passed, PyInt(null_count), <<"", PyInt(0)>>,
                          IF passed THEN "has no null values" ELSE "has null values",
                          check.severity))

_check_null_percent(tbl, c, check) ==
    LET actual == PyFloat(get_column_stats(tbl, c).null_percent)
        cmp == _compare(actual, check.value, check.operator)
    IN IF cmp.raised THEN Raise(cmp.exc)
       ELSE Return(CheckResult(check, <<c>>, cmp.val, actual,
                               <<check.operator, check.value>>, "null_percent is", check.severity))

_check_unique(tbl, c, check) ==
    LET unique_pct == PyFloat(get_column_stats(tbl, c).unique_percent)
        passed == PyEq(unique_pct, PyInt(100))
    IN Return(CheckResult(check, <<c>>, passed, unique_pct, <<"", PyInt(100)>>,
                          IF passed THEN "is 100% unique" ELSE "is % unique",
                          check.severity))

_check_unique_percent(tbl, c, check) ==
    LET actual == PyFloat(get_column_stats(tbl, c).unique_percent)
        cmp == _compare(actual, check.value, check.operator)
    IN IF cmp.raised THEN Raise(cmp.exc)
       ELSE Return(CheckResult(check, <<c>>, cmp.val, actual,
                               <<check.operator, check.value>>, "unique_percent is", check.severity))

_check_no_duplicates(tbl, c, check) ==
    LET result == has_no_duplicates(tbl, c)
    IN Return(CheckResult(check, <<c>>, result.passed, PyInt(result.actual_value),
                          <<"", PyInt(0)>>, result.message, check.severity))

\* isinstance(check.value, (list, tuple)) and len(check.value) == 2
IsTwoBounds(v) == v.kind = "list" /\ Len(v.items) = 2

\* variant: the malformed-value result takes the severity of the check
_check_between_keepSeverity(tbl, c, check) ==
    IF ~IsTwoBounds(check.value)
    THEN Return(CheckResult(check, <<c>>, FALSE, PyNone, <<"", check.value>>,
                            "Range check requires [min, max]", check.severity))
    ELSE LET result == Column_between(tbl, c, check.value.items[1], check.value.items[2], TRUE)
         IN Return(CheckResult(check, <<c>>, result.passed, PyInt(result.actual_value),
                               <<"[min, max]", check.value>>, result.message, check.severity))

_check_between(tbl, c, check) ==
    IF ~IsTwoBounds(check.value)
    THEN Return(CheckResult(check, <<c>>, FALSE, PyNone, <<"", check.value>>,
                            "Range check requires [min, max]", ERROR))
    ELSE LET result == Column_between(tbl, c, check.value.items[1], check.value.items[2], TRUE)
         IN Return(CheckResult(check, <<c>>, result.passed, PyInt(result.actual_value),
                               <<"[min, max]", check.value>>, result.message, check.severity))

\* actual_min is not None and actual_min >= expected_min
_check_min(tbl, c, check) ==
    LET actual_min == PyOfCell(get_column_stats(tbl, c).min_value)
        expected_min == check.value
    IN IF actual_min.kind # "none" /\ ~IsNum(expected_min) THEN Raise("TypeError")
       ELSE Return(CheckResult(check, <<c>>,
                               actual_min.kind # "none" /\ ~NumLt(actual_min, expected_min),
                               actual_min, <<">=", expected_min>>, "min is", check.severity))

_check_max(tbl, c, check) ==
    LET actual_max == PyOfCell(get_column_stats(tbl, c).max_value)
        expected_max == check.value
    IN IF actual_max.kind # "none" /\ ~IsNum(expected_max) THEN Raise("TypeError")
       ELSE Return(CheckResult(check, <<c>>,
                               actual_max.kind # "none" /\ ~NumLt(expected_max, actual_max),
                               actual_max, <<"<=", expected_max>>, "max is", check.severity))

_check_positive(tbl, c, check) ==
    LET result == greater_than(tbl, c, 0)
    IN Return(CheckResult(check, <<c>>, result.passed, PyInt(result.actual_value),
                          <<"> 0", PyNone>>,
                          IF result.passed THEN "has all positive values" ELSE result.message,
                          check.severity))

_check_negative(tbl, c, check) ==
    LET result == less_than(tbl, c, 0)
    IN Return(CheckResult(check, <<c>>, result.passed, PyInt(result.actual_value),
                          <<"< 0", PyNone>>,
                          IF result.passed THEN "has all negative values" ELSE result.message,
                          check.severity))

_check_non_negative(tbl, c, check) ==
    LET actual_min == PyOfCell(get_column_stats(tbl, c).min_value)
    IN Return(CheckResult(check, <<c>>,
                          actual_min.kind # "none" /\ ~NumLt(actual_min, PyInt(0)),
                          actual_min, <<">= 0", PyNone>>, "min is", check.severity))

\* the keys of check_handlers that the model covers
HandledTypes == {"not_null", "null_percent", "unique", "unique_percent", "no_duplicates",
                 "between", "range", "min", "max", "positive", "negative", "non_negative"}

\* handler(col, check) for check.type in check_handlers
check_handlers(tbl, c, check) ==
    CASE check.type = "not_null" -> _check_not_null(tbl, c, check)
      [] check.type = "null_percent" -> _check_null_percent(tbl, c, check)
      [] check.type = "unique" -> _check_unique(tbl, c, check)
      [] check.type = "unique_percent" -> _check_unique_percent(tbl, c, check)
      [] check.type = "no_duplicates" -> _check_no_duplicates(tbl, c, check)
      [] check.type \in {"between", "range"} -> _check_between(tbl, c, check)
      [] check.type = "min" -> _check_min(tbl, c, check)
      [] check.type = "max" -> _check_max(tbl, c, check)
      [] check.type = "positive" -> _check_positive(tbl, c, check)
      [] check.type = "negative" -> _check_negative(tbl, c, check)
      [] check.type = "non_negative" -> _check_non_negative(tbl, c, check)

\* the CheckResult built in the except clause of _execute_*_check
ErrorResult(check, column, exc) ==
    [CheckResult(check, column, FALSE, PyNone, <<"", PyNone>>, "", ERROR)
        EXCEPT !.message = <<"Error executing check", exc>>]

\* the handler call inside the try block
TableHandler(tbl, check) == _check_row_count(tbl, check)

_execute_table_check(tbl, check) ==
    IF check.type = "row_count"
    THEN LET h == TableHandler(tbl, check)
         IN IF h.raised THEN ErrorResult(check, NoColumn, h.exc) ELSE h.val
    ELSE CheckResult(check, NoColumn, FALSE, PyNone, <<"", PyNone>>,
                     "Unsupported table check type", ERROR)

\* variant: the except clause reports the check's own severity
_execute_column_check_keepSeverity(tbl, col_name, check) ==
    IF check.type \in HandledTypes
    THEN LET h == check_handlers(tbl, col_name, check)
         IN IF h.raised
            THEN [ErrorResult(check, <<col_name>>, h.exc) EXCEPT !.severity = check.severity]
            ELSE h.val
    ELSE CheckResult(check, <<col_name>>, FALSE, PyNone, <<"", PyNone>>,
                     "Unsupported check type", ERROR)

_execute_column_check(tbl, col_name, check) ==
    IF check.type \in HandledTypes
    THEN LET h == check_handlers(tbl, col_name, check)
         IN IF h.raised THEN ErrorResult(check, <<col_name>>, h.exc) ELSE h.val
    ELSE CheckResult(check, <<col_name>>, FALSE, PyNone, <<"", PyNone>>,
                     "Unsupported check type", ERROR)

\* the handlers that read Column statistics (Column._get_stats) of their fresh Column
ReadsStats(check) ==
    check.type \in {"not_null", "null_percent", "unique", "unique_percent",
                    "no_duplicates", "min", "max", "non_negative"}

----------------------------------------------------------------------------
(* The rule sets and datasets the executor is run on *)

\* column names a rule set may mention; "zz" is not a column of the dataset
RuleColumnNames == {"a", "b", "zz"}

\* Check objects of the column-level rules
ColumnCheckPool ==
    {Check("not_null", PyNone, "=", sev, TRUE) : sev \in Severity}
      \cup {Check("min", PyNone, "=", WARNING, TRUE),
            Check("between", PyList(<<0>>), "=", WARNING, TRUE),
            Check("range", PyInt(1), "=", INFO, TRUE),
            Check("between", PyList(<<1, 1>>), "=", INFO, TRUE),
            Check("row_count", PyInt(1), ">", INFO, TRUE),
            Check("unique", PyNone, "=", ERROR, FALSE)}

\* Check objects of the table-level rules
TableCheckPool ==
    {Check("row_count", PyInt(1), ">=", WARNING, TRUE),
     Check("row_count", PyStr, "<", INFO, TRUE),
     Check("not_null", PyNone, "=", WARNING, TRUE),
     Check("row_count", PyInt(0), ">=", ERROR, FALSE)}

\* the datasets of the executor runs: empty, and two rows with a null and a duplicate
ExecTables ==
    {<<>>,
     <<[a |-> Cell(1), b |-> NULL], [a |-> Cell(1), b |-> Cell(0)]>>}

ColumnRules(name, checks) == [name |-> name, checks |-> checks]

\* RuleSet.columns is a dict: insertion-ordered, one entry per name
NameOrders ==
    {ord \in SeqsUpTo(RuleColumnNames, Cardinality(RuleColumnNames)) :
        \A i, j \in 1..Len(ord) : ord[i] = ord[j] => i = j}

\* the check lists of at most n checks, n = 0..MaxChecks
TableCheckSeqs == [n \in 0..MaxChecks |-> SeqsUpTo(TableCheckPool, n)]
ColumnCheckSeqs == [n \in 0..MaxChecks |-> SeqsUpTo(ColumnCheckPool, n)]

\* the check lists the k-th of the (at most three) columns of ord may get when
\* `left` checks are still to be given out
ChecksForColumn(ord, k, left) == IF k <= Len(ord) THEN ColumnCheckSeqs[left] ELSE {<<>>}

\* RuleSet(table=TableRules(checks=t), columns={ord[1]: ColumnRules(c1), ...})
RuleSet(t, ord, c1, c2, c3) ==
    [table |-> t,
     columns |-> [j \in 1..Len(ord) |-> ColumnRules(ord[j], <<c1, c2, c3>>[j])]]

----------------------------------------------------------------------------
(* rules/executor.py: RuleExecutor.execute, one loop iteration per step *)

\* no comparison is set up
NoCompare == [actual |-> PyNone, check |-> Check("row_count", PyNone, "=", ERROR, TRUE),
              column |-> NoColumn]

\* reconcile has not been called yet
NoReconcile == [key_columns |-> <<>>, compare_columns |-> <<>>, tolerance |-> [n |-> 0, d |-> 1]]

\* no validation has been called yet
NoCall == [method |-> "none", lo |-> 0, hi |-> 0, pattern |-> "", values |-> <<>>,
           allow_nulls |-> TRUE, capture_failures |-> TRUE]

\* detect_drift has not been called yet
NoDrift == [column |-> "", reference_column |-> "", threshold |-> [n |-> 0, d |-> 1]]

\* no method of a GroupedDataset has been called yet
NoGroupCall == [method |-> "none", group_columns |-> <<>>, check_fn |-> "", column |-> <<>>,
                min_count |-> 0]

\* no cached read has happened yet
NoRead == [op |-> "none", obj |-> 0, fetched |-> FALSE, rc |-> 0, cols |-> <<>>,
           stats |-> StatsDict(0, 0, 0, 0, NULL, NULL)]

InitOther(keep) ==
    /\ "exec" \in keep \/
         (/\ ruleset = [table |-> <<>>, columns |-> <<>>]
          /\ pc = "off" /\ ti = 1 /\ ci = 1 /\ ki = 1
          /\ results = <<>> /\ finished_at = FALSE
          /\ statFetches = [c \in DsColumnSet |-> 0])
    /\ "cache" \in keep \/
         (/\ ds_row_count_cache = <<>> /\ ds_columns_cache = <<>>
          /\ colobjs = <<>> /\ schema = DsColumns /\ lastRead = NoRead)
    /\ "cmp" \in keep \/ (cmpIn = NoCompare /\ cmpOut = <<>>)
    /\ "stat" \in keep \/ (/\ statCols = <<>> /\ batchStats = <<>>
                          /\ singleStats = <<>> /\ queryLog = <<>>)
    /\ "val" \in keep \/ (/\ refData = <<>> /\ valCall = NoCall
                         /\ valOut = <<>> /\ valPrev = <<>>)
    /\ "rec" \in keep \/ (target = <<>> /\ recCall = NoReconcile /\ recOut = <<>>)
    /\ "grade" \in keep \/ (score = [n |-> 0, d |-> 1] /\ grade = <<>>)
    /\ "drift" \in keep \/ (reference = <<>> /\ driftCall = NoDrift /\ driftOut = <<>>)
    /\ "group" \in keep \/ (grpCall = NoGroupCall /\ grpOut = <<>>)

Init ==
    /\ data \in ExecTables
    /\ \E t \in TableCheckSeqs[MaxChecks], ord \in NameOrders :
         \E c1 \in ChecksForColumn(ord, 1, MaxChecks - Len(t)) :
           \E c2 \in ChecksForColumn(ord, 2, MaxChecks - Len(t) - Len(c1)) :
             \E c3 \in ChecksForColumn(ord, 3, MaxChecks - Len(t) - Len(c1) - Len(c2)) :
               ruleset = RuleSet(t, ord, c1, c2, c3)
    /\ pc = "created"
    /\ ti = 1 /\ ci = 1 /\ ki = 1
    /\ results = <<>>
    /\ finished_at = FALSE
    /\ statFetches = [c \in DsColumnSet |-> 0]
    /\ InitOther({"exec"})

\* result = ExecutionResult(ruleset=ruleset, source=source_str)
Begin ==
    /\ pc = "created"
    /\ pc' = "table"
    /\ results' = <<>>
    /\ UNCHANGED <<data, ruleset, ti, ci, ki, finished_at, statFetches>>

\* variant: a table-level result is put in front of the results gathered so far
TableCheck_prepend ==
    /\ pc = "table" /\ ti <= Len(ruleset.table)
    /\ LET check == ruleset.table[ti]
       IN results' = IF check.enabled
                     THEN <<_execute_table_check(data, check)>> \o results
                     ELSE results
    /\ ti' = ti + 1
    /\ UNCHANGED <<data, ruleset, pc, ci, ki, finished_at, statFetches>>

\* one iteration of: for check in ruleset.table.checks
TableCheck ==
    /\ pc = "table" /\ ti <= Len(ruleset.table)
    /\ LET check == ruleset.table[ti]
       IN results' = IF check.enabled
                     THEN Append(results, _execute_table_check(data, check))
                     ELSE results
    /\ ti' = ti + 1
    /\ UNCHANGED <<data, ruleset, pc, ci, ki, finished_at, statFetches>>

\* the table loop is exhausted
TableDone ==
    /\ pc = "table" /\ ti > Len(ruleset.table)
    /\ pc' = "columns"
    /\ UNCHANGED <<data, ruleset, ti, ci, ki, results, finished_at, statFetches>>

\* variant: a missing column ends the loop over the columns (break for continue)
ColumnMissing_abort ==
    /\ pc = "columns" /\ ci <= Len(ruleset.columns)
    /\ ruleset.columns[ci].name \notin DsColumnSet
    /\ results' = Append(results,
                         CheckResult(Check("not_null", PyNone, "=", ERROR, TRUE),
                                     <<ruleset.columns[ci].name>>, FALSE, PyNone,
                                     <<"column exists", PyNone>>,
                                     "Column not found in dataset", ERROR))
    /\ ci' = Len(ruleset.columns) + 1
    /\ UNCHANGED <<data, ruleset, pc, ti, ki, finished_at, statFetches>>

\* for col_name, col_rules in ruleset.columns.items(): col_name not in ds.columns
ColumnMissing ==
    /\ pc = "columns" /\ ci <= Len(ruleset.columns)
    /\ ruleset.columns[ci].name \notin DsColumnSet
    /\ results' = Append(results,
                         CheckResult(Check("not_null", PyNone, "=", ERROR, TRUE),
                                     <<ruleset.columns[ci].name>>, FALSE, PyNone,
                                     <<"column exists", PyNone>>,
                                     "Column not found in dataset", ERROR))
    /\ ci' = ci + 1
    /\ UNCHANGED <<data, ruleset, pc, ti, ki, finished_at, statFetches>>

\* the column exists: enter the loop over col_rules.checks
ColumnEnter ==
    /\ pc = "columns" /\ ci <= Len(ruleset.columns)
    /\ ruleset.columns[ci].name \in DsColumnSet
    /\ pc' = "checks"
    /\ ki' = 1
    /\ UNCHANGED <<data, ruleset, ti, ci, results, finished_at, statFetches>>

\* variant: the loop does not look at check.enabled
ColumnCheck_ignoreEnabled ==
    /\ pc = "checks" /\ ki <= Len(ruleset.columns[ci].checks)
    /\ LET col_name == ruleset.columns[ci].name
           check == ruleset.columns[ci].checks[ki]
       IN /\ results' = Append(results, _execute_column_check(data, col_name, check))
          /\ statFetches' = IF ReadsStats(check)
                            THEN [statFetches EXCEPT ![col_name] = @ + 1]
                            ELSE statFetches
    /\ ki' = ki + 1
    /\ UNCHANGED <<data, ruleset, pc, ti, ci, finished_at>>

\* one iteration of: for check in col_rules.checks
ColumnCheck ==
    /\ pc = "checks" /\ ki <= Len(ruleset.columns[ci].checks)
    /\ LET col_name == ruleset.columns[ci].name
           check == ruleset.columns[ci].checks[ki]
       IN /\ results' = IF check.enabled
                        THEN Append(results, _execute_column_check(data, col_name, check))
                        ELSE results
          /\ statFetches' = IF check.enabled /\ ReadsStats(check)
                            THEN [statFetches EXCEPT ![col_name] = @ + 1]
                            ELSE statFetches
    /\ ki' = ki + 1
    /\ UNCHANGED <<data, ruleset, pc, ti, ci, finished_at>>

\* the checks of the column are exhausted
ColumnDone ==
    /\ pc = "checks" /\ ki > Len(ruleset.columns[ci].checks)
    /\ pc' = "columns"
    /\ ci' = ci + 1
    /\ UNCHANGED <<data, ruleset, ti, ki, results, finished_at, statFetches>>

\* variant: finished_at is stamped as soon as the table-level checks are done
Finish_beforeColumns ==
    /\ pc = "columns"
    /\ finished_at' = TRUE
    /\ pc' = "finished"
    /\ UNCHANGED <<data, ruleset, ti, ci, ki, results, statFetches>>

\* result.finished_at = datetime.now(); return result
Finish ==
    /\ pc = "columns" /\ ci > Len(ruleset.columns)
    /\ finished_at' = TRUE
    /\ pc' = "finished"
    /\ UNCHANGED <<data, ruleset, ti, ci, ki, results, statFetches>>

Next ==
    \/ (Begin /\ UNCHANGED <<cacheVars, cmpVars, statVars, valVars, recVars, gradeVars, driftVars, groupVars>>)
    \/ (TableCheck /\ UNCHANGED <<cacheVars, cmpVars, statVars, valVars, recVars, gradeVars, driftVars, groupVars>>)
    \/ (TableDone /\ UNCHANGED <<cacheVars, cmpVars, statVars, valVars, recVars, gradeVars, driftVars, groupVars>>)
    \/ (ColumnMissing /\ UNCHANGED <<cacheVars, cmpVars, statVars, valVars, recVars, gradeVars, driftVars, groupVars>>)
    \/ (ColumnEnter /\ UNCHANGED <<cacheVars, cmpVars, statVars, valVars, recVars, gradeVars, driftVars, groupVars>>)
    \/ (ColumnCheck /\ UNCHANGED <<cacheVars, cmpVars, statVars, valVars, recVars, gradeVars, driftVars, groupVars>>)
    \/ (ColumnDone /\ UNCHANGED <<cacheVars, cmpVars, statVars, valVars, recVars, gradeVars, driftVars, groupVars>>)
    \/ (Finish /\ UNCHANGED <<cacheVars, cmpVars, statVars, valVars, recVars, gradeVars, driftVars, groupVars>>)

Spec == Init /\ [][Next]_vars

----------------------------------------------------------------------------
(* Properties of RuleExecutor.execute *)

Finished == pc = "finished"

TableIdx == 1..Len(ruleset.table)
ColIdx == 1..Len(ruleset.columns)
ChkIdx(j) == 1..Len(ruleset.columns[j].checks)
Present(j) == ruleset.columns[j].name \in DsColumnSet

\* number of results carrying the Check object x for the column field col
ResultsFor(x, col) ==
    Cardinality({i \in 1..Len(results) : results[i].check = x /\ results[i].column = col})
EnabledTableCopies(x) ==
    Cardinality({i \in TableIdx : ruleset.table[i] = x /\ x.enabled})
EnabledColumnCopies(j, x) ==
    Cardinality({k \in ChkIdx(j) : ruleset.columns[j].checks[k] = x /\ x.enabled})

\* the number of results a complete run has to deliver
EnabledTableChecks == Cardinality({i \in TableIdx : ruleset.table[i].enabled})
EnabledColumnChecks(j) ==
    Cardinality({k \in ChkIdx(j) : ruleset.columns[j].checks[k].enabled})
ExpectedLen ==
    EnabledTableChecks
      + SumSeq([j \in ColIdx |-> IF Present(j) THEN EnabledColumnChecks(j) ELSE 1])

TableHandlerRaises(x) == x.type = "row_count" /\ _check_row_count(data, x).raised
ColumnHandlerRaises(c, x) == x.type \in HandledTypes /\ check_handlers(data, c, x).raised

IsErrorOf(r, exc) ==
    ~r.passed /\ r.severity = ERROR /\ r.message = <<"Error executing check", exc>>

\* C1: when a run has finished, every enabled check whose handler raised has
\* exactly one result, which is failing, of severity Error and carries the
\* exception text, and the run delivered a result for every enabled check and
\* every missing column: no exception left execute and nothing was skipped.
Thm_C1_HandlerExceptionContained ==
    Finished =>
      /\ \A i \in TableIdx :
           LET x == ruleset.table[i]
           IN (x.enabled /\ TableHandlerRaises(x)) =>
                /\ ResultsFor(x, NoColumn) = EnabledTableCopies(x)
                /\ \A r \in Range(results) :
                     (r.check = x /\ r.column = NoColumn) =>
                        IsErrorOf(r, _check_row_count(data, x).exc)
      /\ \A j \in ColIdx : \A k \in ChkIdx(j) :
           LET x == ruleset.columns[j].checks[k]
               c == ruleset.columns[j].name
           IN (Present(j) /\ x.enabled /\ ColumnHandlerRaises(c, x)) =>
                /\ ResultsFor(x, <<c>>) = EnabledColumnCopies(j, x)
                /\ \A r \in Range(results) :
                     (r.check = x /\ r.column = <<c>>) =>
                        IsErrorOf(r, check_handlers(data, c, x).exc)
      /\ Len(results) = ExpectedLen

\* a finished run in which a handler raised and a later check was still evaluated
Wit_C1_RaisedThenContinued ==
    /\ Finished
    /\ \E i \in 1..Len(results) :
         /\ results[i].message[1] = "Error executing check"
         /\ i < Len(results)
         /\ results[i + 1].passed

\* C2: when a run has finished, every rule-set column that the dataset does
\* not have has exactly one result: failing, severity Error, column set to the
\* name, message "column not found"; that is its only result, whatever checks
\* it lists, and the other columns were evaluated in full.
Thm_C2_MissingColumn ==
    Finished =>
      /\ \A j \in ColIdx :
           ~Present(j) =>
             LET c == ruleset.columns[j].name
                 rs == {i \in 1..Len(results) : results[i].column = <<c>>}
             IN /\ Cardinality(rs) = 1
                /\ \A i \in rs :
                     /\ ~results[i].passed
                     /\ results[i].severity = ERROR
                     /\ results[i].message[1] = "Column not found in dataset"
      /\ \A j \in ColIdx :
           Present(j) =>
             Cardinality({i \in 1..Len(results) :
                             results[i].column = <<ruleset.columns[j].name>>})
               = EnabledColumnChecks(j)

\* a finished run with a missing column that has an enabled check, followed by
\* an existing column whose check was evaluated
Wit_C2_MissingThenEvaluated ==
    /\ Finished
    /\ \E j \in ColIdx :
         /\ ~Present(j)
         /\ EnabledColumnChecks(j) > 0
         /\ j < Len(ruleset.columns)
         /\ Present(j + 1)
         /\ EnabledColumnChecks(j + 1) > 0

\* C3: ExecutionResult.passed is true exactly when no result is failing with
\* severity Error; failing results of severity Warning or Info leave it true.
Thm_C3_PassedIffNoErrorFailure ==
    ExecutionResult_passed(results)
      <=> ~(\E i \in 1..Len(results) : results[i].passed = FALSE /\ results[i].severity = ERROR)

\* results with a failing Warning and a failing Info result and passed still true
Wit_C3_WarningsDoNotFail ==
    /\ \E i \in 1..Len(results) : ~results[i].passed /\ results[i].severity = WARNING
    /\ \E i \in 1..Len(results) : ~results[i].passed /\ results[i].severity = INFO
    /\ ExecutionResult_passed(results)

\* C4: quality_score is passed_count / total_checks * 100 on a non-empty
\* result list, 100 on an empty one, and 0 when every result is an Error failure.
Thm_C4_QualityScore ==
    LET qs == quality_score(results)
        npassed == Cardinality({i \in 1..Len(results) : results[i].passed = TRUE})
    IN /\ qs.d > 0
       /\ results # <<>> => qs.n * Len(results) = npassed * 100 * qs.d
       /\ results = <<>> => qs.n = 100 * qs.d
       /\ (results # <<>> /\ \A i \in 1..Len(results) :
                                ~results[i].passed /\ results[i].severity = ERROR)
             => qs.n = 0

\* a finished run whose results are one pass and one failure of severity Warning
Wit_C4_MixedResults ==
    /\ Finished
    /\ Len(results) = 2
    /\ Cardinality({i \in 1..Len(results) : results[i].passed}) = 1
    /\ \E i \in 1..Len(results) : ~results[i].passed /\ results[i].severity = WARNING

\* C5: after a run on a dataset that has every column of the rule set, the
\* results hold exactly one CheckResult per enabled table-level and column-level
\* check and none for a disabled check.
Thm_C5_OneResultPerEnabledCheck ==
    (Finished /\ \A j \in ColIdx : Present(j)) =>
      /\ \A x \in TableCheckPool :
           ResultsFor(x, NoColumn) = EnabledTableCopies(x)
      /\ \A j \in ColIdx : \A x \in ColumnCheckPool :
           ResultsFor(x, <<ruleset.columns[j].name>>) = EnabledColumnCopies(j, x)
      /\ Len(results) = EnabledTableChecks + SumSeq([j \in ColIdx |-> EnabledColumnChecks(j)])

\* a finished run over existing columns with a disabled column check and an enabled check
Wit_C5_DisabledSkipped ==
    /\ Finished
    /\ \A j \in ColIdx : Present(j)
    /\ \E j \in ColIdx : \E k \in ChkIdx(j) : ~ruleset.columns[j].checks[k].enabled
    /\ Len(results) = 1

----------------------------------------------------------------------------
(* core/dataset.py, core/column.py: the caches of Dataset and Column, read *)
(* while the source changes underneath                                     *)

\* the states of the source: relations of different size and content
CacheTables ==
    {<<>>,
     <<[a |-> Cell(0), b |-> NULL]>>,
     <<[a |-> Cell(1), b |-> NULL], [a |-> Cell(1), b |-> Cell(0)]>>}

\* the column lists the source can have
Schemas == {DsColumns, <<"a">>}

get_columns(sch) == sch

None == <<>>
Some(x) == <<x>>

\* Column.__init__
Column(name) == [name |-> name, stats_cache |-> None]

InitCache ==
    /\ data \in CacheTables
    /\ schema \in Schemas
    /\ ds_row_count_cache = None
    /\ ds_columns_cache = None
    /\ colobjs = <<>>
    /\ lastRead = NoRead
    /\ InitOther({"cache"})

\* variant: the row count is fetched again on every read
ReadRowCount_autoRefresh ==
    /\ ds_row_count_cache' = Some(get_row_count(data))
    /\ lastRead' = [NoRead EXCEPT !.op = "row_count",
                                  !.fetched = (ds_row_count_cache = None),
                                  !.rc = ds_row_count_cache'[1]]
    /\ UNCHANGED <<data, schema, ds_columns_cache, colobjs>>

\* Dataset.row_count
ReadRowCount ==
    /\ ds_row_count_cache' = IF ds_row_count_cache = None
                             THEN Some(get_row_count(data))
                             ELSE ds_row_count_cache
    /\ lastRead' = [NoRead EXCEPT !.op = "row_count",
                                  !.fetched = (ds_row_count_cache = None),
                                  !.rc = ds_row_count_cache'[1]]
    /\ UNCHANGED <<data, schema, ds_columns_cache, colobjs>>

\* Dataset.columns: the list after the read
ColumnsAfterRead == IF ds_columns_cache = None THEN Some(get_columns(schema)) ELSE ds_columns_cache

ReadColumns ==
    /\ ds_columns_cache' = ColumnsAfterRead
    /\ lastRead' = [NoRead EXCEPT !.op = "columns",
                                  !.fetched = (ds_columns_cache = None),
                                  !.cols = ds_columns_cache'[1]]
    /\ UNCHANGED <<data, schema, ds_row_count_cache, colobjs>>

\* Dataset.__getitem__(name): reads self.columns, raises KeyError for an unknown
\* name, else returns a new Column
GetItem(name) ==
    /\ Len(colobjs) < MaxColumnObjs
    /\ ds_columns_cache' = ColumnsAfterRead
    /\ colobjs' = IF name \in Range(ds_columns_cache'[1])
                  THEN Append(colobjs, Column(name))
                  ELSE colobjs
    /\ UNCHANGED <<data, schema, ds_row_count_cache, lastRead>>

\* Column._get_stats of the k-th Column object; the query fails when the source
\* has lost the column, and then nothing is cached
ReadStats(k) ==
    LET col == colobjs[k]
    IN IF col.stats_cache = None /\ col.name \notin Range(schema)
       THEN /\ lastRead' = [NoRead EXCEPT !.op = "raise", !.obj = k, !.fetched = TRUE]
            /\ UNCHANGED <<data, schema, ds_row_count_cache, ds_columns_cache, colobjs>>
       ELSE /\ colobjs' = [colobjs EXCEPT ![k].stats_cache =
                              IF col.stats_cache = None
                              THEN Some(get_column_stats(data, col.name))
                              ELSE col.stats_cache]
            /\ lastRead' = [NoRead EXCEPT !.op = "stats", !.obj = k,
                                          !.fetched = (col.stats_cache = None),
                                          !.stats = colobjs'[k].stats_cache[1]]
            /\ UNCHANGED <<data, schema, ds_row_count_cache, ds_columns_cache>>

\* Dataset.clear_cache
Dataset_clear_cache ==
    /\ ds_row_count_cache' = None
    /\ ds_columns_cache' = None
    /\ UNCHANGED <<data, schema, colobjs, lastRead>>

\* Column.clear_cache of the k-th Column object
Column_clear_cache(k) ==
    /\ colobjs' = [colobjs EXCEPT ![k].stats_cache = None]
    /\ UNCHANGED <<data, schema, ds_row_count_cache, ds_columns_cache, lastRead>>

\* the environment rewrites the source relation or changes its columns
MutateSource ==
    /\ \/ data' \in CacheTables \ {data} /\ UNCHANGED schema
       \/ schema' \in Schemas \ {schema} /\ UNCHANGED data
    /\ UNCHANGED <<ds_row_count_cache, ds_columns_cache, colobjs, lastRead>>

NextCache ==
    \/ (ReadRowCount /\ UNCHANGED <<execVars, cmpVars, statVars, valVars, recVars, gradeVars, driftVars, groupVars>>)
    \/ (ReadColumns /\ UNCHANGED <<execVars, cmpVars, statVars, valVars, recVars, gradeVars, driftVars, groupVars>>)
    \/ (\E name \in DsColumnSet : GetItem(name) /\ UNCHANGED <<execVars, cmpVars, statVars, valVars, recVars, gradeVars, driftVars, groupVars>>)
    \/ (\E k \in 1..Len(colobjs) : ReadStats(k) /\ UNCHANGED <<execVars, cmpVars, statVars, valVars, recVars, gradeVars, driftVars, groupVars>>)
    \/ (Dataset_clear_cache /\ UNCHANGED <<execVars, cmpVars, statVars, valVars, recVars, gradeVars, driftVars, groupVars>>)
    \/ (\E k \in 1..Len(colobjs) : Column_clear_cache(k) /\ UNCHANGED <<execVars, cmpVars, statVars, valVars, recVars, gradeVars, driftVars, groupVars>>)
    \/ (MutateSource /\ UNCHANGED <<execVars, cmpVars, statVars, valVars, recVars, gradeVars, driftVars, groupVars>>)

SpecCache == InitCache /\ [][NextCache]_vars

----------------------------------------------------------------------------
(* Properties of the caches *)

\* C6: between invalidations the statistics of one column of one Dataset are
\* fetched from the source at most once, also across the checks of one run.
Cex_C6_StatsFetchedAtMostOnce ==
    \A c \in DsColumnSet : statFetches[c] <= 1

\* what a step may do to one cache slot: keep it, fill it, or clear it
SlotKept(old, new) == (old # None /\ new # None) => new = old

\* C7: a cached row count, column list or statistics dict is never replaced
\* by a newer value: it only changes by being cleared; a read of a filled
\* cache returns the cached value without querying the source, whatever the
\* source holds now, and a read of an empty (new or cleared) cache queries the
\* source and returns its current value.
Thm_C7_NeverAutoRefreshed ==
    [][/\ SlotKept(ds_row_count_cache, ds_row_count_cache')
       /\ SlotKept(ds_columns_cache, ds_columns_cache')
       /\ \A k \in 1..Len(colobjs) : SlotKept(colobjs[k].stats_cache, colobjs'[k].stats_cache)
       /\ (lastRead' # lastRead /\ lastRead'.op = "row_count") =>
            /\ lastRead'.fetched = (ds_row_count_cache = None)
            /\ lastRead'.rc = IF ds_row_count_cache = None THEN get_row_count(data)
                              ELSE ds_row_count_cache[1]
       /\ (lastRead' # lastRead /\ lastRead'.op = "columns") =>
            /\ lastRead'.fetched = (ds_columns_cache = None)
            /\ lastRead'.cols = IF ds_columns_cache = None THEN get_columns(schema)
                                ELSE ds_columns_cache[1]
       /\ (lastRead' # lastRead /\ lastRead'.op = "stats") =>
            LET col == colobjs[lastRead'.obj]
            IN /\ lastRead'.fetched = (col.stats_cache = None)
               /\ lastRead'.stats = IF col.stats_cache = None
                                    THEN get_column_stats(data, col.name)
                                    ELSE col.stats_cache[1]
      ]_vars

\* a Column read returned statistics that the source no longer has, while the
\* Dataset holds a row count and a column list that are stale as well
Wit_C7_StaleValuesServed ==
    /\ lastRead.op = "stats"
    /\ ~lastRead.fetched
    /\ lastRead.stats # get_column_stats(data, colobjs[lastRead.obj].name)
    /\ ds_row_count_cache # None
    /\ ds_row_count_cache[1] # get_row_count(data)
    /\ ds_columns_cache # None
    /\ ds_columns_cache[1] # get_columns(schema)

----------------------------------------------------------------------------
(* Malformed range checks *)

MalformedRange(x) == x.type \in {"between", "range"} /\ ~IsTwoBounds(x.value)

\* C8 as stated: a between/range check without exactly two bounds is raised
\* as a hard error and never turns into a result of the run.
Cex_C8_MalformedRangeNeverInResults ==
    \A i \in 1..Len(results) : ~MalformedRange(results[i].check)

\* C8, amended: the malformed check is not raised; when the run has finished,
\* every enabled malformed between/range check of an existing column has its
\* results, each failing with severity Error (whatever the check's severity)
\* and the message "Range check requires [min, max]", and the run is complete.
Thm_C8_MalformedRangeDeferred ==
    Finished =>
      /\ \A j \in ColIdx : \A k \in ChkIdx(j) :
           LET x == ruleset.columns[j].checks[k]
               c == ruleset.columns[j].name
           IN (Present(j) /\ x.enabled /\ MalformedRange(x)) =>
                /\ ResultsFor(x, <<c>>) = EnabledColumnCopies(j, x)
                /\ \A r \in Range(results) :
                     (r.check = x /\ r.column = <<c>>) =>
                        /\ ~r.passed
                        /\ r.severity = ERROR
                        /\ r.message[1] = "Range check requires [min, max]"
      /\ Len(results) = ExpectedLen

\* a finished run with the result of a malformed range check followed by another result
Wit_C8_MalformedThenContinued ==
    /\ Finished
    /\ \E i \in 1..Len(results) :
         /\ MalformedRange(results[i].check)
         /\ results[i].check.severity # ERROR
         /\ i < Len(results)

----------------------------------------------------------------------------
(* Threshold comparisons: _compare called directly and through the         *)
(* row_count, null_percent and unique_percent checks                       *)

\* operators a check may carry; "~" is not a key of the comparison table
CompareOperators == Operators \cup {"~"}
ThresholdValues == {PyNone, PyInt(0), PyInt(50), PyInt(100), PyStr}
ActualValues == {PyNone, PyInt(0), PyInt(1), PyFloat([n |-> 100, d |-> 2])}
ThresholdTypes == {"row_count", "null_percent", "unique_percent"}

InitCompare ==
    /\ data \in Tables
    /\ cmpIn \in [actual : ActualValues,
                  check : {Check(t, v, op, WARNING, TRUE) :
                              t \in ThresholdTypes, v \in ThresholdValues,
                              op \in CompareOperators},
                  column : {<<"a">>}]
    /\ cmpOut = <<>>
    /\ InitOther({"cmp"})

\* self._compare(actual, expected, operator) with the arguments as given
CallCompare ==
    /\ cmpOut = <<>>
    /\ cmpOut' = <<[via |-> "direct",
                    call |-> _compare(cmpIn.actual, cmpIn.check.value, cmpIn.check.operator)]>>
    /\ UNCHANGED <<data, cmpIn>>

\* the check is run by the executor against the dataset: the statistic is the
\* actual value
RunThresholdCheck ==
    /\ cmpOut = <<>>
    /\ cmpOut' =
         <<[via |-> "check",
            result |-> IF cmpIn.check.type = "row_count"
                       THEN _execute_table_check(data, cmpIn.check)
                       ELSE _execute_column_check(data, cmpIn.column[1], cmpIn.check)]>>
    /\ UNCHANGED <<data, cmpIn>>

NextCompare ==
    \/ (CallCompare /\ UNCHANGED <<execVars, cacheVars, statVars, valVars, recVars, gradeVars, driftVars, groupVars>>)
    \/ (RunThresholdCheck /\ UNCHANGED <<execVars, cacheVars, statVars, valVars, recVars, gradeVars, driftVars, groupVars>>)

SpecCompare == InitCompare /\ [][NextCompare]_vars

\* C9: _compare returns false (and does not raise) whenever the actual or the
\* expected value is None, for every operator, != and <> and unknown ones
\* included; a row_count, null_percent or unique_percent check whose threshold
\* is None does not pass.
Thm_C9_NoneFailsClosed ==
    \A i \in 1..Len(cmpOut) :
       /\ (cmpOut[i].via = "direct"
             /\ (cmpIn.actual.kind = "none" \/ cmpIn.check.value.kind = "none"))
            => (~cmpOut[i].call.raised /\ cmpOut[i].call.val = FALSE)
       /\ (cmpOut[i].via = "check" /\ cmpIn.check.value.kind = "none")
            => ~cmpOut[i].result.passed

\* a check with operator != or <> and a None threshold was run on a non-empty dataset
Wit_C9_NotEqualAgainstNone ==
    /\ cmpOut # <<>>
    /\ cmpOut[1].via = "check"
    /\ cmpIn.check.operator \in {"!=", "<>"}
    /\ cmpIn.check.value.kind = "none"
    /\ cmpIn.actual.kind # "none"
    /\ Len(data) > 0

----------------------------------------------------------------------------
(* core/engine.py: get_all_column_stats against get_column_stats *)

NotCalled == <<>>

InitStats ==
    /\ data \in Tables
    /\ statCols \in SeqsUpTo(DsColumnSet, MaxStatCols)
    /\ batchStats = NotCalled
    /\ singleStats = <<>>
    /\ queryLog = <<>>
    /\ InitOther({"stat"})

\* engine.get_all_column_stats(source, columns)
CallAllColumnStats ==
    /\ batchStats = NotCalled
    /\ batchStats' = <<get_all_column_stats(data, statCols)>>
    /\ queryLog' = queryLog \o AllStatsQueries(statCols)
    /\ UNCHANGED <<data, statCols, singleStats>>

\* engine.get_column_stats(source, c)
CallColumnStats(c) ==
    /\ c \notin DOMAIN singleStats
    /\ singleStats' = [x \in (DOMAIN singleStats) \cup {c} |->
                          IF x = c THEN get_column_stats(data, c) ELSE singleStats[x]]
    /\ queryLog' = queryLog \o ColumnStatsQueries(c)
    /\ UNCHANGED <<data, statCols, batchStats>>

NextStats ==
    \/ (CallAllColumnStats /\ UNCHANGED <<execVars, cacheVars, cmpVars, valVars, recVars, gradeVars, driftVars, groupVars>>)
    \/ (\E c \in DsColumnSet : CallColumnStats(c) /\ UNCHANGED <<execVars, cacheVars, cmpVars, valVars, recVars, gradeVars, driftVars, groupVars>>)

SpecStats == InitStats /\ [][NextStats]_vars

\* C10: for every column of the list, the batched call reports the same
\* total_count, non_null_count, null_count and unique_count as the
\* single-column call, and has an entry for exactly the listed columns.
Thm_C10_BatchedEqualsSingle ==
    batchStats # NotCalled =>
      /\ DOMAIN batchStats[1] = Range(statCols)
      /\ \A c \in (DOMAIN batchStats[1]) \cap (DOMAIN singleStats) :
           /\ batchStats[1][c].total_count = singleStats[c].total_count
           /\ batchStats[1][c].non_null_count = singleStats[c].non_null_count
           /\ batchStats[1][c].null_count = singleStats[c].null_count
           /\ batchStats[1][c].unique_count = singleStats[c].unique_count

\* both paths ran on two columns whose null and distinct counts differ
Wit_C10_TwoDifferentColumns ==
    /\ batchStats # NotCalled
    /\ Len(statCols) >= 2
    /\ statCols[1] # statCols[2]
    /\ DOMAIN singleStats = DsColumnSet
    /\ singleStats["a"].null_count # singleStats["b"].null_count
    /\ singleStats["a"].unique_count # singleStats["b"].unique_count

\* the queries of the log that get_all_column_stats issued
BatchQueries == SelectSeq(queryLog, LAMBDA q : q.by = "get_all_column_stats")

\* C11: get_all_column_stats hands exactly one query to the data source for a
\* non-empty column list, whatever its length, and none for an empty list;
\* that one query aggregates every column of the list.
Thm_C11_OneQueryForAllColumns ==
    /\ batchStats = NotCalled => BatchQueries = <<>>
    /\ batchStats # NotCalled =>
         /\ Len(BatchQueries) = (IF statCols = <<>> THEN 0 ELSE 1)
         /\ \A k \in 1..Len(BatchQueries) : BatchQueries[k].cols = statCols

\* the batched call ran on a list of two columns, beside single-column calls
Wit_C11_TwoColumnsOneQuery ==
    /\ batchStats # NotCalled
    /\ Len(statCols) >= 2
    /\ Len(BatchQueries) = 1
    /\ Len(queryLog) > 1

\* the batched call ran on the empty list and asked nothing
Wit_C11_EmptyListNoQuery ==
    /\ batchStats # NotCalled
    /\ statCols = <<>>
    /\ queryLog = <<>>

----------------------------------------------------------------------------
(* core/column.py: the validations of a Column called on a relation *)

ValValues == {0, 1, 10}
ValCells == {NULL} \cup {Cell(v) : v \in ValValues}

\* the validated column is "a"; the other column plays no part
ValRow(x) == [a |-> x, b |-> NULL]

\* k NULL rows followed by rows holding v, longer than the sample size
LongLen == DEFAULT_SAMPLE_SIZE + 1
LongValTables ==
    {[i \in 1..LongLen |-> IF i <= k THEN ValRow(NULL) ELSE ValRow(Cell(v))] :
        k \in 0..LongLen, v \in ValValues}

ValTables == SeqsUpTo({ValRow(x) : x \in ValCells}, MaxRows) \cup LongValTables

\* the relations a reference column is taken from
RefTables == SeqsUpTo({ValRow(x) : x \in Cells}, MaxRows)

RangeBounds == {0, 1, 10}
LengthBounds == {1, 2}
Patterns == {"^1", "0$", "^[0-9]$"}
IsinLists == {<<0>>, <<1, 1>>, <<1, 10>>, <<0, 1, 10>>}

CallOf(method, lo, hi, pattern, values, allow_nulls, capture_failures) ==
    [method |-> method, lo |-> lo, hi |-> hi, pattern |-> pattern, values |-> values,
     allow_nulls |-> allow_nulls, capture_failures |-> capture_failures]

InitVal ==
    /\ data \in ValTables
    /\ refData = <<>>
    /\ valCall = NoCall
    /\ valOut = <<>>
    /\ valPrev = <<>>
    /\ InitOther({"val"})

\* A run makes one validation call: the validations change nothing they read.
\* A between call may be followed by one more between call on the same column,
\* so that the counts of two ranges can be compared.

\* ds["a"].between(lo, hi, capture_failures)
CallBetween ==
    \E lo \in RangeBounds, hi \in RangeBounds, cap \in BOOLEAN :
      /\ valCall = NoCall \/ (valCall.method = "between" /\ valPrev = <<>>)
      /\ valCall' = CallOf("between", lo, hi, "", <<>>, TRUE, cap)
      /\ valOut' = <<Column_between(data, "a", lo, hi, cap)>>
      /\ valPrev' = IF valCall.method = "between" THEN <<valCall, valOut[1]>> ELSE <<>>
      /\ UNCHANGED <<data, refData>>

\* ds["a"].matches(pattern, capture_failures)
CallMatches ==
    \E pattern \in Patterns, cap \in BOOLEAN :
      /\ valCall = NoCall
      /\ valCall' = CallOf("matches", 0, 0, pattern, <<>>, TRUE, cap)
      /\ valOut' = <<matches(data, "a", pattern, cap)>>
      /\ valPrev' = <<>>
      /\ UNCHANGED <<data, refData>>

\* ds["a"].isin(values, capture_failures)
CallIsin ==
    \E values \in IsinLists, cap \in BOOLEAN :
      /\ valCall = NoCall
      /\ valCall' = CallOf("isin", 0, 0, "", values, TRUE, cap)
      /\ valOut' = <<isin(data, "a", values, cap)>>
      /\ valPrev' = <<>>
      /\ UNCHANGED <<data, refData>>

\* ds["a"].greater_than(value)
CallGreaterThan ==
    \E value \in RangeBounds :
      /\ valCall = NoCall
      /\ valCall' = CallOf("greater_than", value, value, "", <<>>, TRUE, TRUE)
      /\ valOut' = <<greater_than(data, "a", value)>>
      /\ valPrev' = <<>>
      /\ UNCHANGED <<data, refData>>

\* ds["a"].less_than(value)
CallLessThan ==
    \E value \in RangeBounds :
      /\ valCall = NoCall
      /\ valCall' = CallOf("less_than", value, value, "", <<>>, TRUE, TRUE)
      /\ valOut' = <<less_than(data, "a", value)>>
      /\ valPrev' = <<>>
      /\ UNCHANGED <<data, refData>>

\* ds["a"].value_lengths_between(min_len, max_len)
CallValueLengthsBetween ==
    \E lo \in LengthBounds, hi \in LengthBounds :
      /\ valCall = NoCall
      /\ valCall' = CallOf("value_lengths_between", lo, hi, "", <<>>, TRUE, TRUE)
      /\ valOut' = <<value_lengths_between(data, "a", lo, hi)>>
      /\ valPrev' = <<>>
      /\ UNCHANGED <<data, refData>>

\* ds["a"].exists_in(ref["a"], capture_failures)
CallExistsIn ==
    \E ref \in RefTables, cap \in BOOLEAN :
      /\ refData' = ref
      /\ valCall = NoCall
      /\ valCall' = CallOf("exists_in", 0, 0, "", <<>>, TRUE, cap)
      /\ valOut' = <<exists_in(data, "a", ref, "a", cap)>>
      /\ valPrev' = <<>>
      /\ UNCHANGED data

\* ds["a"].references(ref["a"], allow_nulls, capture_failures)
CallReferences ==
    \E ref \in RefTables, allow \in BOOLEAN, cap \in BOOLEAN :
      /\ refData' = ref
      /\ valCall = NoCall
      /\ valCall' = CallOf("references", 0, 0, "", <<>>, allow, cap)
      /\ valOut' = <<references(data, "a", ref, "a", allow, cap)>>
      /\ valPrev' = <<>>
      /\ UNCHANGED data

\* ds["a"].matches_values(other["a"], capture_failures)
CallMatchesValues ==
    \E other \in RefTables, cap \in BOOLEAN :
      /\ refData' = other
      /\ valCall = NoCall
      /\ valCall' = CallOf("matches_values", 0, 0, "", <<>>, TRUE, cap)
      /\ valOut' = <<matches_values(data, "a", other, "a", cap)>>
      /\ valPrev' = <<>>
      /\ UNCHANGED data

NextVal ==
    \/ (CallBetween /\ UNCHANGED <<execVars, cacheVars, cmpVars, statVars, recVars, gradeVars, driftVars, groupVars>>)
    \/ (CallMatches /\ UNCHANGED <<execVars, cacheVars, cmpVars, statVars, recVars, gradeVars, driftVars, groupVars>>)
    \/ (CallIsin /\ UNCHANGED <<execVars, cacheVars, cmpVars, statVars, recVars, gradeVars, driftVars, groupVars>>)
    \/ (CallGreaterThan /\ UNCHANGED <<execVars, cacheVars, cmpVars, statVars, recVars, gradeVars, driftVars, groupVars>>)
    \/ (CallLessThan /\ UNCHANGED <<execVars, cacheVars, cmpVars, statVars, recVars, gradeVars, driftVars, groupVars>>)
    \/ (CallValueLengthsBetween /\ UNCHANGED <<execVars, cacheVars, cmpVars, statVars, recVars, gradeVars, driftVars, groupVars>>)
    \/ (CallExistsIn /\ UNCHANGED <<execVars, cacheVars, cmpVars, statVars, recVars, gradeVars, driftVars, groupVars>>)
    \/ (CallReferences /\ UNCHANGED <<execVars, cacheVars, cmpVars, statVars, recVars, gradeVars, driftVars, groupVars>>)
    \/ (CallMatchesValues /\ UNCHANGED <<execVars, cacheVars, cmpVars, statVars, recVars, gradeVars, driftVars, groupVars>>)

SpecVal == InitVal /\ [][NextVal]_vars

\* the value v breaks the condition the call states for the values of the column
Violates(call, v) ==
    IF call.method = "between" THEN ~(call.lo <= v /\ v <= call.hi)
    ELSE IF call.method = "matches" THEN ~regexp_matches(CastVarchar(v), call.pattern)
    ELSE IF call.method = "isin" THEN \A k \in 1..Len(call.values) : call.values[k] # v
    ELSE IF call.method = "greater_than" THEN ~(v > call.lo)
    ELSE IF call.method = "less_than" THEN ~(v < call.hi)
    ELSE ~(call.lo <= Len(CastVarchar(v)) /\ Len(CastVarchar(v)) <= call.hi)

CountingMethods ==
    {"between", "matches", "isin", "greater_than", "less_than", "value_lengths_between"}

\* the rows of the source that hold a value and break the condition of the call
ViolatingRows == {i \in 1..Len(data) : ~IsNull(data[i].a) /\ Violates(valCall, data[i].a[1])}

\* C12: a counting validation reports the number of rows whose value is not
\* NULL and fails the predicate, and passes exactly when that number is 0; a
\* NULL is never counted, so a column without a non-null value gives 0 and passes.
Thm_C12_CountsNonNullViolations ==
    valCall.method \in CountingMethods =>
      /\ valOut[1].actual_value = Cardinality(ViolatingRows)
      /\ valOut[1].passed = (ViolatingRows = {})
      /\ (\A i \in 1..Len(data) : IsNull(data[i].a)) =>
            (valOut[1].actual_value = 0 /\ valOut[1].passed)

\* greater_than ran on a column holding a NULL and a violating value
Wit_C12_NullBesideViolation ==
    /\ valCall.method = "greater_than"
    /\ \E i \in 1..Len(data) : IsNull(data[i].a)
    /\ valOut[1].actual_value >= 1
    /\ valOut[1].actual_value < Len(data)

\* C13: for one column, between(lo2, hi2) with lo <= lo2 and hi2 <= hi counts at
\* least as many violations as between(lo, hi).
Thm_C13_TighterRangeCountsMore ==
    (valPrev # <<>> /\ valCall.method = "between"
       /\ valPrev[1].lo <= valCall.lo /\ valCall.hi <= valPrev[1].hi) =>
      valOut[1].actual_value >= valPrev[2].actual_value

\* a range was tightened on both sides and the count grew
Wit_C13_TightenedAndGrew ==
    /\ valPrev # <<>>
    /\ valCall.method = "between"
    /\ valPrev[1].lo < valCall.lo /\ valCall.hi < valPrev[1].hi
    /\ valCall.lo <= valCall.hi
    /\ valOut[1].actual_value > valPrev[2].actual_value

SamplingMethods == {"between", "matches", "isin", "exists_in", "references", "matches_values"}

\* C14: the failed_rows of a ValidationResult are at most the sample limit and at
\* most total_failures.
Cex_C14_SampleBounded ==
    valCall.method \in SamplingMethods =>
      /\ Len(valOut[1].failed_rows) <= DEFAULT_SAMPLE_SIZE
      /\ Len(valOut[1].failed_rows) <= valOut[1].total_failures

\* C15: every sampled FailedRow names a row of the source, and the source holds
\* FailedRow.value at that row number.
Cex_C15_RowIndexIsSourceRow ==
    valOut # <<>> =>
      \A k \in 1..Len(valOut[1].failed_rows) :
        LET fr == valOut[1].failed_rows[k]
        IN /\ fr.row_index \in 1..Len(data)
           /\ data[fr.row_index].a = fr.value

\* the source rows holding a value that no row of the reference column holds
OrphanRows ==
    {i \in 1..Len(data) :
        /\ ~IsNull(data[i].a)
        /\ \A j \in 1..Len(refData) : IsNull(refData[j].a) \/ refData[j].a[1] # data[i].a[1]}

\* C16: exists_in reports the number of source rows whose value is not NULL and
\* equals no value of the reference column; with an empty reference relation and
\* a source without NULL that is the row count of the source.
Thm_C16_OrphanCount ==
    valCall.method = "exists_in" =>
      /\ valOut[1].actual_value = Cardinality(OrphanRows)
      /\ valOut[1].total_failures = Cardinality(OrphanRows)
      /\ valOut[1].passed = (OrphanRows = {})
      /\ (refData = <<>> /\ \A i \in 1..Len(data) : ~IsNull(data[i].a)) =>
            valOut[1].actual_value = Len(data)

\* exists_in ran on a source with a NULL and an orphan against a reference that has rows
Wit_C16_NullBesideOrphan ==
    /\ valCall.method = "exists_in"
    /\ refData # <<>>
    /\ \E i \in 1..Len(data) : IsNull(data[i].a)
    /\ valOut[1].actual_value >= 1

\* C17: references(ref, allow_nulls=False) passes exactly when there is neither
\* an orphan nor a NULL and reports orphans + nulls; references(ref,
\* allow_nulls=True) returns what exists_in(ref) returns.
Thm_C17_ReferencesNulls ==
    valCall.method = "references" =>
      LET nulls == Cardinality({i \in 1..Len(data) : IsNull(data[i].a)})
          orphans == Cardinality(OrphanRows)
      IN IF valCall.allow_nulls
         THEN valOut[1] = exists_in(data, "a", refData, "a", valCall.capture_failures)
         ELSE /\ valOut[1].passed = (orphans = 0 /\ nulls = 0)
              /\ valOut[1].actual_value = orphans + nulls
              /\ valOut[1].total_failures = orphans + nulls

\* references(allow_nulls=False) failed on a column whose only fault is a NULL
Wit_C17_NullOnlyFails ==
    /\ valCall.method = "references"
    /\ ~valCall.allow_nulls
    /\ OrphanRows = {}
    /\ Len(data) >= 2
    /\ ~valOut[1].passed
    /\ valOut[1].actual_value = 1

\* the sample is bounded for every sampling validation other than references
SampleBoundedButReferences ==
    (valCall.method \in SamplingMethods \ {"references"}) =>
      /\ Len(valOut[1].failed_rows) <= DEFAULT_SAMPLE_SIZE
      /\ Len(valOut[1].failed_rows) <= valOut[1].total_failures

----------------------------------------------------------------------------
(* core/dataset.py: Dataset.reconcile *)

\* sample_mismatches: int = 10
DefaultSampleMismatches == 10

\* a tolerance is the fraction n/d
Tolerance(n, d) == [n |-> n, d |-> d]

\* s."k" = t."k" AND ... over the key columns: a NULL component equals nothing
KeysEqual(s, t, key_columns) ==
    \A k \in 1..Len(key_columns) :
      /\ ~IsNull(s[key_columns[k]])
      /\ ~IsNull(t[key_columns[k]])
      /\ s[key_columns[k]] = t[key_columns[k]]

\* variant: the distinct key tuples of the left relation that the right one lacks
AntiJoin_distinctKeys(left, right, key_columns) ==
    LET key(r) == [k \in 1..Len(key_columns) |-> r[key_columns[k]]]
        first(i) == \A h \in 1..(i - 1) : key(left[h]) # key(left[i])
    IN {i \in 1..Len(left) :
          first(i) /\ \A j \in 1..Len(right) : key(right[j]) # key(left[i])}

\* SELECT ... FROM left WHERE NOT EXISTS (SELECT 1 FROM right WHERE <keys equal>)
AntiJoin(left, right, key_columns) ==
    {i \in 1..Len(left) : \A j \in 1..Len(right) : ~KeysEqual(left[i], right[j], key_columns)}

\* FROM source s INNER JOIN target t ON <keys equal>: the pairs of joined rows
InnerJoin(src, tgt, key_columns) ==
    {p \in (1..Len(src)) \X (1..Len(tgt)) : KeysEqual(src[p[1]], tgt[p[2]], key_columns)}

Abs(x) == IF x < 0 THEN -x ELSE x

\* COALESCE(CAST(col AS DOUBLE), 0)
Coalesce0(c) == IF IsNull(c) THEN 0 ELSE c[1]

\* variant: the difference alone, without the two IS NULL disjuncts
ToleranceMismatch_differenceOnly(sv, tv, tolerance) ==
    Abs(Coalesce0(sv) - Coalesce0(tv)) * tolerance.d > tolerance.n

\* ABS(COALESCE(s, 0) - COALESCE(t, 0)) > tolerance
\*   OR (s IS NULL AND t IS NOT NULL) OR (s IS NOT NULL AND t IS NULL)
ToleranceMismatch(sv, tv, tolerance) ==
    \/ Abs(Coalesce0(sv) - Coalesce0(tv)) * tolerance.d > tolerance.n
    \/ (IsNull(sv) /\ ~IsNull(tv))
    \/ (~IsNull(sv) /\ IsNull(tv))

\* s.col IS DISTINCT FROM t.col
ExactMismatch(sv, tv) == sv # tv

\* the joined pairs that the mismatch query of one column selects
MismatchPairs(src, tgt, key_columns, col, tolerance) ==
    {p \in InnerJoin(src, tgt, key_columns) :
        IF tolerance.n > 0
        THEN ToleranceMismatch(src[p[1]][col], tgt[p[2]][col], tolerance)
        ELSE ExactMismatch(src[p[1]][col], tgt[p[2]][col])}

\* value_mismatches[col] = mismatch_count, only when mismatch_count > 0
ValueMismatches(src, tgt, key_columns, compare_columns, tolerance) ==
    LET count(col) == Cardinality(MismatchPairs(src, tgt, key_columns, col, tolerance))
    IN [col \in {c \in Range(compare_columns) : count(c) > 0} |-> count(col)]

\* sum(value_mismatches.values())
RECURSIVE SumValues(_)
SumValues(f) ==
    IF DOMAIN f = {} THEN 0
    ELSE LET c == CHOOSE x \in DOMAIN f : TRUE
         IN f[c] + SumValues([x \in (DOMAIN f) \ {c} |-> f[x]])

\* matched_rows * len(compare_columns) if compare_columns else matched_rows
TotalComparisons(matched_rows, compare_columns) ==
    IF compare_columns # <<>> THEN matched_rows * Len(compare_columns) ELSE matched_rows

\* variant: nothing compared always counts as a full match
match_percentage_alwaysFull(total_comparisons, total_mismatches, missing_count, extra_count) ==
    IF total_comparisons > 0
    THEN [n |-> (total_comparisons - total_mismatches) * 100, d |-> total_comparisons]
    ELSE [n |-> 100, d |-> 1]

\* ((total_comparisons - total_mismatches) / total_comparisons) * 100, kept as a fraction
match_percentage(total_comparisons, total_mismatches, missing_count, extra_count) ==
    IF total_comparisons > 0
    THEN [n |-> (total_comparisons - total_mismatches) * 100, d |-> total_comparisons]
    ELSE IF missing_count = 0 /\ extra_count = 0 THEN [n |-> 100, d |-> 1]
    ELSE [n |-> 0, d |-> 1]

\* the pairs of a join in the order the join delivers them
PairOrder(S) ==
    [k \in 1..Cardinality(S) |->
        CHOOSE p \in S :
          Cardinality({q \in S : q[1] < p[1] \/ (q[1] = p[1] /\ q[2] < p[2])}) = k - 1]

Limit(rows, n) == IF Len(rows) <= n THEN rows ELSE SubSeq(rows, 1, n)

ReconciliationMismatch(key_values, column, source_value, target_value, mismatch_type) ==
    [key_values |-> key_values, column |-> column, source_value |-> source_value,
     target_value |-> target_value, mismatch_type |-> mismatch_type]

KeyValues(row, key_columns) == [k \in Range(key_columns) |-> row[k]]

\* the value differences sampled for the columns compare_columns[:3], each query
\* with LIMIT remaining
RECURSIVE SampleValueDiffs(_, _, _, _, _, _)
SampleValueDiffs(src, tgt, key_columns, cols, tolerance, remaining) ==
    IF cols = <<>> THEN <<>>
    ELSE LET col == Head(cols)
             pairs == Limit(PairOrder(MismatchPairs(src, tgt, key_columns, col, tolerance)),
                            remaining)
         IN [k \in 1..Len(pairs) |->
                ReconciliationMismatch(KeyValues(src[pairs[k][1]], key_columns), col,
                                       src[pairs[k][1]][col], tgt[pairs[k][2]][col],
                                       "value_diff")]
            \o SampleValueDiffs(src, tgt, key_columns, Tail(cols), tolerance, remaining)

_get_sample_mismatches(src, tgt, key_columns, compare_columns, tolerance, limit) ==
    LET missing_rows == Limit(ScanOrder(AntiJoin(src, tgt, key_columns)), limit)
        missing == [k \in 1..Len(missing_rows) |->
                       ReconciliationMismatch(KeyValues(src[missing_rows[k]], key_columns),
                                              "(row)", <<"exists">>, <<"missing">>,
                                              "missing_in_target")]
        remaining == limit - Len(missing)
        diffs == IF remaining > 0 /\ compare_columns # <<>>
                 THEN SampleValueDiffs(src, tgt, key_columns, Limit(compare_columns, 3),
                                       tolerance, remaining)
                 ELSE <<>>
    IN Limit(missing \o diffs, limit)

\* compare_columns is None (<<>>) or Some(list); self.columns is the column list
\* of the source
reconcile(src, tgt, key_columns, compare_columns_arg, tolerance, sample_mismatches) ==
    LET compare_columns ==
            IF compare_columns_arg = None
            THEN SelectSeq(DsColumns, LAMBDA c : c \notin Range(key_columns))
            ELSE compare_columns_arg[1]
        missing_count == Cardinality(AntiJoin(src, tgt, key_columns))
        extra_count == Cardinality(AntiJoin(tgt, src, key_columns))
        value_mismatches == ValueMismatches(src, tgt, key_columns, compare_columns, tolerance)
        source_count == get_row_count(src)
        target_count == get_row_count(tgt)
        matched_rows == source_count - missing_count
        total_comparisons == TotalComparisons(matched_rows, compare_columns)
        total_mismatches == SumValues(value_mismatches)
        mismatches ==
            IF sample_mismatches > 0
                 /\ (missing_count > 0 \/ extra_count > 0 \/ DOMAIN value_mismatches # {})
            THEN _get_sample_mismatches(src, tgt, key_columns, compare_columns, tolerance,
                                        sample_mismatches)
            ELSE <<>>
    IN [passed |-> missing_count = 0 /\ extra_count = 0 /\ DOMAIN value_mismatches = {},
        source_row_count |-> source_count,
        target_row_count |-> target_count,
        missing_in_target |-> missing_count,
        extra_in_target |-> extra_count,
        value_mismatches |-> value_mismatches,
        match_percentage |-> match_percentage(total_comparisons, total_mismatches,
                                              missing_count, extra_count),
        key_columns |-> key_columns,
        compared_columns |-> compare_columns,
        mismatches |-> mismatches]

\* rows of the source (ids 1, 2, NULL) and of the target (ids 1, 3, NULL), with
\* values that are NULL, equal or one apart
RecSourceRows ==
    {[a |-> Cell(1), b |-> Cell(0)], [a |-> Cell(1), b |-> Cell(1)], [a |-> Cell(1), b |-> NULL],
     [a |-> Cell(2), b |-> Cell(1)], [a |-> Cell(2), b |-> NULL], [a |-> NULL, b |-> Cell(0)]}
RecTargetRows ==
    {[a |-> Cell(1), b |-> Cell(0)], [a |-> Cell(1), b |-> NULL],
     [a |-> Cell(3), b |-> Cell(0)], [a |-> NULL, b |-> Cell(0)]}

KeyLists == {<<"a">>, <<"a", "b">>}
CompareLists == {None, Some(<<"b">>)}
Tolerances == {Tolerance(0, 1), Tolerance(1, 2), Tolerance(1, 1)}

InitReconcile ==
    /\ data \in SeqsUpTo(RecSourceRows, MaxRows)
    /\ target \in SeqsUpTo(RecTargetRows, MaxRows)
    /\ recCall = NoReconcile
    /\ recOut = <<>>
    /\ InitOther({"rec"})

\* source.reconcile(target, key_columns, compare_columns, tolerance)
CallReconcile ==
    \E keys \in KeyLists, cols \in CompareLists, tol \in Tolerances :
      /\ recCall = NoReconcile
      /\ recCall' = [key_columns |-> keys, compare_columns |-> cols, tolerance |-> tol]
      /\ recOut' = <<reconcile(data, target, keys, cols, tol, DefaultSampleMismatches)>>
      /\ UNCHANGED <<data, target>>

NextReconcile ==
    CallReconcile /\ UNCHANGED <<execVars, cacheVars, cmpVars, statVars, valVars, gradeVars, driftVars, groupVars>>

SpecReconcile == InitReconcile /\ [][NextReconcile]_vars

\* the key tuple of a row under the key columns of the call
KeyTuple(row) == [k \in 1..Len(recCall.key_columns) |-> row[recCall.key_columns[k]]]

SourceKeyTuples == {KeyTuple(data[i]) : i \in 1..Len(data)}
TargetKeyTuples == {KeyTuple(target[j]) : j \in 1..Len(target)}

\* two rows agree on the key: every key component is a value, the same in both
Agree(s, t) ==
    \A k \in Range(recCall.key_columns) : s[k] # NULL /\ t[k] # NULL /\ s[k] = t[k]

\* the pairs (source row, target row) matched on the key columns
MatchedPairs == {p \in (1..Len(data)) \X (1..Len(target)) : Agree(data[p[1]], target[p[2]])}

\* the scenario: source ids 1, 2; target ids 1, 3; the same value on id 1
ExampleSource == <<[a |-> Cell(1), b |-> Cell(0)], [a |-> Cell(2), b |-> Cell(1)]>>
ExampleTarget == <<[a |-> Cell(1), b |-> Cell(0)], [a |-> Cell(3), b |-> Cell(0)]>>

\* C18 as stated: missing_in_target is the number of key tuples of the source
\* that are no key tuple of the target, and extra_in_target the number of key
\* tuples of the target that are no key tuple of the source.
Cex_C18_CountsKeyTuples ==
    recOut # <<>> =>
      /\ recOut[1].missing_in_target = Cardinality(SourceKeyTuples \ TargetKeyTuples)
      /\ recOut[1].extra_in_target = Cardinality(TargetKeyTuples \ SourceKeyTuples)

\* C18: missing_in_target is the number of source rows that agree on the key
\* with no target row, and extra_in_target the number of target rows that agree
\* on the key with no source row (rows are counted, and a NULL key component
\* agrees with nothing); where keys are unique and without NULL on both sides
\* these are the numbers of key tuples; the scenario gives 1 missing, 1 extra
\* and no value mismatch.
Thm_C18_AntiJoinRowCounts ==
    recOut # <<>> =>
      LET missing == {i \in 1..Len(data) : \A j \in 1..Len(target) : ~Agree(data[i], target[j])}
          extra == {j \in 1..Len(target) : \A i \in 1..Len(data) : ~Agree(data[i], target[j])}
          cleanKeys ==
              /\ Cardinality(SourceKeyTuples) = Len(data)
              /\ Cardinality(TargetKeyTuples) = Len(target)
              /\ \A t \in SourceKeyTuples \cup TargetKeyTuples :
                   \A k \in 1..Len(t) : t[k] # NULL
      IN /\ recOut[1].missing_in_target = Cardinality(missing)
         /\ recOut[1].extra_in_target = Cardinality(extra)
         /\ cleanKeys =>
              /\ recOut[1].missing_in_target = Cardinality(SourceKeyTuples \ TargetKeyTuples)
              /\ recOut[1].extra_in_target = Cardinality(TargetKeyTuples \ SourceKeyTuples)
         /\ (data = ExampleSource /\ target = ExampleTarget
               /\ recCall.key_columns = <<"a">>) =>
              /\ recOut[1].missing_in_target = 1
              /\ recOut[1].extra_in_target = 1
              /\ DOMAIN recOut[1].value_mismatches = {}

\* reconcile ran on the scenario with key id
Wit_C18_ScenarioReconciled ==
    /\ recOut # <<>>
    /\ data = ExampleSource
    /\ target = ExampleTarget
    /\ recCall.key_columns = <<"a">>
    /\ recOut[1].missing_in_target = 1
    /\ ~recOut[1].passed

\* C19: match_percentage is (total_comparisons - total_mismatches) /
\* total_comparisons * 100 when total_comparisons > 0; with no comparison it is
\* 100 when nothing is missing and nothing is extra, and 0 otherwise.
Thm_C19_MatchPercentage ==
    recOut # <<>> =>
      LET r == recOut[1]
          matched_rows == r.source_row_count - r.missing_in_target
          total_comparisons == IF r.compared_columns = <<>> THEN matched_rows
                               ELSE matched_rows * Len(r.compared_columns)
          total_mismatches == SumValues(r.value_mismatches)
          mp == r.match_percentage
      IN /\ mp.d > 0
         /\ total_comparisons > 0 =>
              mp.n * total_comparisons = (total_comparisons - total_mismatches) * 100 * mp.d
         /\ total_comparisons <= 0 =>
              /\ (mp.n = 100 * mp.d) <=> (r.missing_in_target = 0 /\ r.extra_in_target = 0)
              /\ (mp.n = 100 * mp.d) \/ mp.n = 0

\* nothing was compared and a row is missing or extra: the percentage is 0
Wit_C19_NothingComparedNotClean ==
    /\ recOut # <<>>
    /\ recOut[1].source_row_count - recOut[1].missing_in_target = 0
    /\ recOut[1].missing_in_target + recOut[1].extra_in_target > 0
    /\ recOut[1].match_percentage.n = 0

\* exactly one of the two values is NULL
OneSidedNull(sv, tv) == (sv = NULL) # (tv = NULL)

\* two values differ by more than the tolerance of the call (unequal for tolerance 0)
Differ(sv, tv) ==
    IF recCall.tolerance.n = 0 THEN sv[1] # tv[1]
    ELSE Abs(sv[1] - tv[1]) * recCall.tolerance.d > recCall.tolerance.n

\* the mismatch count reported for a column (a column without mismatch has no entry)
ReportedMismatches(col) ==
    IF col \in DOMAIN recOut[1].value_mismatches THEN recOut[1].value_mismatches[col] ELSE 0

\* C20: among the rows matched on the key, a compared column counts one
\* mismatch for every pair with exactly one NULL, with tolerance 0 and with a
\* positive tolerance alike, and none for a pair with two NULLs; the other
\* mismatches are the pairs of values that differ.
Thm_C20_OneSidedNullMismatch ==
    recOut # <<>> =>
      \A col \in Range(recOut[1].compared_columns) :
        LET oneNull == {p \in MatchedPairs : OneSidedNull(data[p[1]][col], target[p[2]][col])}
            bothValues == {p \in MatchedPairs :
                              data[p[1]][col] # NULL /\ target[p[2]][col] # NULL}
            differing == {p \in bothValues : Differ(data[p[1]][col], target[p[2]][col])}
        IN ReportedMismatches(col) = Cardinality(oneNull) + Cardinality(differing)

\* with a positive tolerance, a matched pair holds NULL against 0 and is counted,
\* beside a matched pair of two NULLs
Wit_C20_NullAgainstZero ==
    /\ recOut # <<>>
    /\ recCall.tolerance.n > 0
    /\ "b" \in Range(recOut[1].compared_columns)
    /\ \E p \in MatchedPairs : data[p[1]].b = NULL /\ target[p[2]].b = Cell(0)
    /\ \E p \in MatchedPairs : data[p[1]].b = NULL /\ target[p[2]].b = NULL
    /\ ReportedMismatches("b") >= 1

----------------------------------------------------------------------------
(* rules/executor.py: order of the results and life cycle of a run *)

\* the check and the column a result was made for
Origin(r) == [check |-> r.check, column |-> r.column]

\* the check put into the result of a column the dataset does not have
MissingColumnCheck == Check("not_null", PyNone, "=", ERROR, TRUE)

\* the enabled table-level checks from position i on, in listed order
RECURSIVE TableOriginsFrom(_)
TableOriginsFrom(i) ==
    IF i > Len(ruleset.table) THEN <<>>
    ELSE (IF ruleset.table[i].enabled
          THEN <<[check |-> ruleset.table[i], column |-> NoColumn]>>
          ELSE <<>>) \o TableOriginsFrom(i + 1)

\* the enabled checks of the j-th column from position k on, in listed order
RECURSIVE ChecksOriginsFrom(_, _)
ChecksOriginsFrom(j, k) ==
    IF k > Len(ruleset.columns[j].checks) THEN <<>>
    ELSE (IF ruleset.columns[j].checks[k].enabled
          THEN <<[check |-> ruleset.columns[j].checks[k],
                  column |-> <<ruleset.columns[j].name>>]>>
          ELSE <<>>) \o ChecksOriginsFrom(j, k + 1)

\* the columns from the j-th on, in the order of RuleSet.columns
RECURSIVE ColumnOriginsFrom(_)
ColumnOriginsFrom(j) ==
    IF j > Len(ruleset.columns) THEN <<>>
    ELSE (IF Present(j)
          THEN ChecksOriginsFrom(j, 1)
          ELSE <<[check |-> MissingColumnCheck, column |-> <<ruleset.columns[j].name>>]>>)
         \o ColumnOriginsFrom(j + 1)

\* table-level checks first, then column by column
ExpectedOrder == TableOriginsFrom(1) \o ColumnOriginsFrom(1)

ResultOrigins == [p \in 1..Len(results) |-> Origin(results[p])]

IsPrefix(s, t) == Len(s) <= Len(t) /\ \A p \in 1..Len(s) : s[p] = t[p]

\* C22: at every moment of a run the results are an initial part of the
\* sequence "enabled table-level checks in listed order, then for each column
\* in the order of RuleSet.columns its enabled checks in listed order (one
\* result for a missing column)"; a finished run holds the whole sequence; and
\* every step keeps the results gathered so far at their positions (results
\* are appended, never reordered or removed).
Thm_C22_StableOrder ==
    /\ [](/\ IsPrefix(ResultOrigins, ExpectedOrder)
          /\ Finished => ResultOrigins = ExpectedOrder)
    /\ [][IsPrefix(results, results')]_vars

\* a finished run with a table-level result, then the result of a missing
\* column, then the result of a check on an existing column
Wit_C22_TableMissingColumn ==
    /\ Finished
    /\ Len(results) = 3
    /\ results[1].column = NoColumn
    /\ results[2].message[1] = "Column not found in dataset"
    /\ results[3].column # NoColumn
    /\ results[3].column # results[2].column
    /\ results[3].message[1] # "Column not found in dataset"

\* Created: the ExecutionResult is being set up; Running: the loops evaluate
\* checks; Finished: finished_at has been stamped and the result returned
Phase ==
    CASE pc = "created" -> "Created"
      [] pc = "finished" -> "Finished"
      [] OTHER -> "Running"

\* C23: a run goes Created -> Running -> Finished and never back; finished_at
\* is unset in Created and Running; when it is set the results are complete
\* (every enabled check and every missing column has its result); and once it
\* is set no step changes the results or unsets it.
Thm_C23_LifeCycle ==
    /\ [](/\ Phase \in {"Created", "Running"} => finished_at = FALSE
          /\ Phase = "Finished" => finished_at = TRUE
          /\ finished_at = TRUE => Len(results) = ExpectedLen)
    /\ [][/\ <<Phase, Phase'>> \in {<<"Created", "Running">>, <<"Running", "Running">>,
                                     <<"Running", "Finished">>, <<"Finished", "Finished">>}
          /\ finished_at = TRUE => (finished_at' = TRUE /\ results' = results)]_vars

\* a finished run that evaluated checks: finished_at is set and results are there
Wit_C23_FinishedAfterChecks ==
    /\ finished_at = TRUE
    /\ Len(results) = MaxChecks
    /\ \A p \in 1..Len(results) : results[p].message[1] # "Column not found in dataset"

\* C27: in every ExecutionResult the derived counters partition the results:
\* passed_count + failed_count + warning_count = total_checks.
Cex_C27_CountersPartition ==
    passed_count(results) + failed_count(results) + warning_count(results)
      = total_checks(results)

----------------------------------------------------------------------------
(* rules/executor.py: runs that put two value checks on one column *)

\* values of the checked column: negative, zero, positive
VerdictValues == {0 - 1, 0, 1}

\* datasets with column a over VerdictValues and NULL and column b all NULL:
\* empty, fully null, with and without duplicates
VerdictTables ==
    SeqsUpTo({[a |-> x, b |-> NULL] : x \in {NULL} \cup {Cell(v) : v \in VerdictValues}}, MaxRows)

\* Check(type=UNIQUE), Check(type=NO_DUPLICATES), Check(type=POSITIVE), Check(type=NON_NEGATIVE)
VerdictChecks ==
    {Check(t, PyNone, "=", ERROR, TRUE) : t \in {"unique", "no_duplicates", "positive", "non_negative"}}

\* execute on a rule set with two of the checks on one existing column, with
\* or without a table-level check and a column the dataset does not have
InitVerdicts ==
    /\ data \in VerdictTables
    /\ \E t \in {<<>>, <<Check("row_count", PyInt(1), ">=", WARNING, TRUE)>>},
          c \in DsColumnSet, x1 \in VerdictChecks, x2 \in VerdictChecks :
         \E ord \in {<<c>>, <<"zz", c>>} :
           ruleset = [table |-> t,
                      columns |-> [j \in 1..Len(ord) |->
                                     ColumnRules(ord[j], IF ord[j] = c THEN <<x1, x2>> ELSE <<>>)]]
    /\ pc = "created"
    /\ ti = 1 /\ ci = 1 /\ ki = 1
    /\ results = <<>>
    /\ finished_at = FALSE
    /\ statFetches = [c \in DsColumnSet |-> 0]
    /\ InitOther({"exec"})

SpecVerdicts == InitVerdicts /\ [][Next]_vars

\* the results of checks of type t1 and t2 on the same column, pairwise
VerdictPairs(t1, t2) ==
    {<<p, q>> \in (1..Len(results)) \X (1..Len(results)) :
        /\ results[p].check.type = t1
        /\ results[q].check.type = t2
        /\ results[p].column = results[q].column}

\* C28: on every column, the empty dataset's included, a UNIQUE check and a
\* NO_DUPLICATES check of one run give the same verdict, and each passes
\* exactly when the column's distinct-value count equals the row count.
Cex_C28_UniqueAgreesWithNoDuplicates ==
    \A pq \in VerdictPairs("unique", "no_duplicates") :
        LET c == results[pq[1]].column[1]
            same == SqlCountDistinct(data, c) = SqlCountStar(data)
        IN /\ results[pq[1]].passed = results[pq[2]].passed
           /\ results[pq[1]].passed <=> same
           /\ results[pq[2]].passed <=> same

\* C29: on every column, empty and fully null ones included, when the
\* POSITIVE check of a run passes, the NON_NEGATIVE check of the run passes.
Cex_C29_PositiveImpliesNonNegative ==
    \A pq \in VerdictPairs("positive", "non_negative") :
        results[pq[1]].passed => results[pq[2]].passed

----------------------------------------------------------------------------
(* core/dataset.py: range of the match percentage of Dataset.reconcile *)

\* C26: for every source, target and key columns, duplicate and NULL keys
\* included, the match_percentage of reconcile lies in [0, 100], the counted
\* value mismatches never exceeding the number of comparisons.
Cex_C26_MatchPercentageInRange ==
    recOut # <<>> =>
      LET r == recOut[1]
          matched_rows == r.source_row_count - r.missing_in_target
      IN /\ r.match_percentage.d > 0
         /\ 0 <= r.match_percentage.n
         /\ r.match_percentage.n <= 100 * r.match_percentage.d
         /\ SumValues(r.value_mismatches) <= TotalComparisons(matched_rows, r.compared_columns)

----------------------------------------------------------------------------
(* reports/html_reporter.py: the letter grade of a quality score *)

\* score >= k for a score kept as the fraction n / d, d > 0
ScoreAtLeast(s, k) == s.n >= k * s.d

\* variant: the thresholds are compared with > instead of >=
_score_to_grade_exclusive(s) ==
    IF s.n > 90 * s.d THEN "A"
    ELSE IF s.n > 80 * s.d THEN "B"
    ELSE IF s.n > 70 * s.d THEN "C"
    ELSE IF s.n > 60 * s.d THEN "D"
    ELSE "F"

_score_to_grade(s) ==
    IF ScoreAtLeast(s, 90) THEN "A"
    ELSE IF ScoreAtLeast(s, 80) THEN "B"
    ELSE IF ScoreAtLeast(s, 70) THEN "C"
    ELSE IF ScoreAtLeast(s, 60) THEN "D"
    ELSE "F"

\* scores from -1 to 101 in whole points, thirds and tenths (89.9, 90.0, 66.67, ..)
ScoreDenominators == {1, 3, 10}
Scores ==
    {x \in [n : (0 - 10)..1010, d : ScoreDenominators] : 0 - x.d <= x.n /\ x.n <= 101 * x.d}

InitGrade ==
    /\ data = <<>>
    /\ score \in Scores
    /\ grade = <<>>
    /\ InitOther({"grade"})

\* grade = self._score_to_grade(result.quality_score)
CallScoreToGrade ==
    /\ grade = <<>>
    /\ grade' = <<_score_to_grade(score)>>
    /\ UNCHANGED <<data, score>>

NextGrade ==
    CallScoreToGrade /\ UNCHANGED <<execVars, cacheVars, cmpVars, statVars, valVars, recVars, driftVars, groupVars>>

SpecGrade == InitGrade /\ [][NextGrade]_vars

\* 89.9 and 90.0 as fractions
Score89_9 == [n |-> 899, d |-> 10]
Score90_0 == [n |-> 900, d |-> 10]

\* C25: the grade of a score is A when score >= 90, B when 80 <= score < 90,
\* C when 70 <= score < 80, D when 60 <= score < 70 and F when score < 60; the
\* thresholds themselves belong to the higher grade (90.0 is A, 89.9 is B).
Thm_C25_GradeThresholds ==
    grade # <<>> =>
      LET g == grade[1]
      IN /\ g \in {"A", "B", "C", "D", "F"}
         /\ g = "A" <=> ScoreAtLeast(score, 90)
         /\ g = "B" <=> (ScoreAtLeast(score, 80) /\ ~ScoreAtLeast(score, 90))
         /\ g = "C" <=> (ScoreAtLeast(score, 70) /\ ~ScoreAtLeast(score, 80))
         /\ g = "D" <=> (ScoreAtLeast(score, 60) /\ ~ScoreAtLeast(score, 70))
         /\ g = "F" <=> ~ScoreAtLeast(score, 60)
         /\ score = Score89_9 => g = "B"
         /\ score = Score90_0 => g = "A"

\* the score 90.0 has been graded A
Wit_C25_NinetyIsA == score = Score90_0 /\ grade = <<"A">>

----------------------------------------------------------------------------
(* core/column.py: Column.detect_drift and the two-sample KS test *)

\* def _get_numeric_values(self, limit: int = 10000)
NumericValuesLimit == 10000

\* ln 2 in millionths: 2 * exp(-x) >= 1 exactly when x <= ln 2
Ln2Micro == 693147

\* the p-value thresholds of the calls: 0, 0.05 (the default), 0.5, 1 and 2
Thresholds ==
    {[n |-> 0, d |-> 1], [n |-> 1, d |-> 20], [n |-> 1, d |-> 2], [n |-> 1, d |-> 1],
     [n |-> 2, d |-> 1]}

\* ln(2 / threshold) in millionths for the positive thresholds: ln 40, ln 4, ln 2, ln 1
LnTwoOverMicro(threshold) ==
    CASE threshold = [n |-> 1, d |-> 20] -> 3688879
      [] threshold = [n |-> 1, d |-> 2] -> 1386294
      [] threshold = [n |-> 1, d |-> 1] -> Ln2Micro
      [] threshold = [n |-> 2, d |-> 1] -> 0

\* SELECT CAST(col AS DOUBLE) FROM ref WHERE col IS NOT NULL LIMIT limit
_get_numeric_values(tbl, c, limit) ==
    LET rows == ScanOrder(NonNullRows(tbl, c))
    IN Limit([k \in 1..Len(rows) |-> tbl[rows[k]][c][1]], limit)

\* sum(1 for x in data_sorted if x <= val)
CountAtMost(values, val) == Cardinality({k \in 1..Len(values) : values[k] <= val})

\* max over all values of abs(cdf1 - cdf2), as a fraction over n1 * n2
KsStatistic(data1, data2) ==
    LET n1 == Len(data1)
        n2 == Len(data2)
        all_values == Range(data1) \cup Range(data2)
        diffs == {Abs(CountAtMost(data1, v) * n2 - CountAtMost(data2, v) * n1) : v \in all_values}
    IN [n |-> SetMax(diffs \cup {0}), d |-> n1 * n2]

\* 2 * (ks_stat * sqrt(n1 * n2 / (n1 + n2))) ** 2, as a fraction
KsExponent(ks_stat, n1, n2) ==
    [n |-> 2 * ks_stat.n * ks_stat.n * n1 * n2, d |-> ks_stat.d * ks_stat.d * (n1 + n2)]

\* a p-value: 1.0 when clamped, 2 * exp(-exponent) otherwise
PValue(clamped, exponent) == [clamped |-> clamped, exponent |-> exponent]

\* variant: the p-value is returned without min(1.0, max(0.0, p_value))
_ks_test_unclamped(data1, data2) ==
    LET ks_stat == KsStatistic(data1, data2)
        x == KsExponent(ks_stat, Len(data1), Len(data2))
    IN [ks_stat |-> ks_stat, p_value |-> PValue(FALSE, x)]

\* p_value = min(1.0, max(0.0, 2.0 * math.exp(-2.0 * (ks_stat * en) ** 2)))
_ks_test(data1, data2) ==
    LET ks_stat == KsStatistic(data1, data2)
        x == KsExponent(ks_stat, Len(data1), Len(data2))
    IN [ks_stat |-> ks_stat, p_value |-> PValue(x.n * 1000000 <= Ln2Micro * x.d, x)]

\* p_value < threshold
PValueBelow(p, threshold) ==
    IF p.clamped THEN threshold.d < threshold.n
    ELSE /\ threshold.n > 0
         /\ p.exponent.n * 1000000 > LnTwoOverMicro(threshold) * p.exponent.d

DriftResult(is_drifted, p_value, statistic, threshold, message) ==
    [is_drifted |-> is_drifted, p_value |-> p_value, statistic |-> statistic,
     threshold |-> threshold, message |-> message]

detect_drift(tbl, c, ref, rc, threshold) ==
    LET current_values == _get_numeric_values(tbl, c, NumericValuesLimit)
        reference_values == _get_numeric_values(ref, rc, NumericValuesLimit)
    IN IF Len(current_values) = 0 \/ Len(reference_values) = 0
       THEN DriftResult(FALSE, PValue(TRUE, [n |-> 0, d |-> 1]), [n |-> 0, d |-> 1], threshold,
                        "Insufficient data for drift detection")
       ELSE LET ks == _ks_test(current_values, reference_values)
                is_drifted == PValueBelow(ks.p_value, threshold)
            IN DriftResult(is_drifted, ks.p_value, ks.ks_stat, threshold,
                           IF is_drifted THEN "Distribution drift detected"
                           ELSE "No significant drift")

\* current and reference datasets: column a over Cells, column b all NULL
DriftTables == SeqsUpTo({[a |-> x, b |-> NULL] : x \in Cells}, MaxRows)

InitDrift ==
    /\ data \in DriftTables
    /\ reference = <<>>
    /\ driftCall = NoDrift
    /\ driftOut = <<>>
    /\ InitOther({"drift"})

\* dataset[c].detect_drift(reference_dataset[rc], threshold)
CallDetectDrift ==
    /\ driftCall = NoDrift
    /\ \E ref \in DriftTables, c \in DsColumnSet, rc \in DsColumnSet, threshold \in Thresholds :
         /\ reference' = ref
         /\ driftCall' = [column |-> c, reference_column |-> rc, threshold |-> threshold]
         /\ driftOut' = <<detect_drift(data, c, ref, rc, threshold)>>
    /\ UNCHANGED data

NextDrift ==
    CallDetectDrift /\ UNCHANGED <<execVars, cacheVars, cmpVars, statVars, valVars, recVars, gradeVars, groupVars>>

SpecDrift == InitDrift /\ [][NextDrift]_vars

\* the samples the latest call compared
CurrentSample == _get_numeric_values(data, driftCall.column, NumericValuesLimit)
ReferenceSample == _get_numeric_values(reference, driftCall.reference_column, NumericValuesLimit)

\* C24: when detect_drift compares a sample with the same sample, the KS
\* statistic is 0, the p-value is 1.0 (2 * exp(0) = 2 clamped into [0, 1]) and,
\* for every threshold of at most 1, is_drifted is false.
Thm_C24_SameSampleNoDrift ==
    (driftOut # <<>> /\ CurrentSample = ReferenceSample) =>
      LET r == driftOut[1]
      IN /\ r.statistic.n = 0
         /\ r.statistic.d > 0
         /\ r.p_value.clamped
         /\ r.threshold.n <= r.threshold.d => ~r.is_drifted

\* a sample of two different values compared with itself at threshold 1
Wit_C24_SameValuesThresholdOne ==
    /\ driftOut # <<>>
    /\ CurrentSample = ReferenceSample
    /\ Cardinality(Range(CurrentSample)) >= 2
    /\ driftCall.threshold = [n |-> 1, d |-> 1]
    /\ ~driftOut[1].is_drifted

----------------------------------------------------------------------------
(* core/dataset.py: Dataset.group_by, GroupedDataset and _GroupColumn *)

PyBool(b) == [kind |-> "bool", n |-> IF b THEN 1 ELSE 0, d |-> 1, items |-> <<>>]

\* ORDER BY on one column: values ascending, NULL after every value
CellBefore(x, y) == ~IsNull(x) /\ (IsNull(y) \/ x[1] < y[1])

\* ORDER BY cols_sql on key dicts
KeyBefore(g, h, group_columns) ==
    \E i \in 1..Len(group_columns) :
      /\ \A j \in 1..(i - 1) : g[group_columns[j]] = h[group_columns[j]]
      /\ CellBefore(g[group_columns[i]], h[group_columns[i]])

\* SELECT DISTINCT cols FROM ref ORDER BY cols, each row as dict(zip(group_columns, row));
\* DISTINCT keeps one tuple for the rows whose key is NULL
groups(tbl, group_columns) ==
    LET keys == {KeyValues(tbl[i], group_columns) : i \in 1..Len(tbl)}
    IN [k \in 1..Cardinality(keys) |->
          CHOOSE g \in keys :
            Cardinality({h \in keys : KeyBefore(h, g, group_columns)}) = k - 1]

\* the rows GROUP BY puts into the group of a key: NULL keys form one group
GroupRows(tbl, group_columns, key) ==
    {i \in 1..Len(tbl) : KeyValues(tbl[i], group_columns) = key}

\* SELECT cols, COUNT(*) as row_count FROM ref GROUP BY cols ORDER BY row_count DESC
\* (groups of equal size are listed in key order here; SQL leaves their order open)
stats(tbl, group_columns) ==
    LET gs == groups(tbl, group_columns)
        n(i) == Cardinality(GroupRows(tbl, group_columns, gs[i]))
        before(i, j) == n(i) > n(j) \/ (n(i) = n(j) /\ i < j)
    IN [k \in 1..Len(gs) |->
          LET g == CHOOSE i \in 1..Len(gs) :
                     Cardinality({j \in 1..Len(gs) : before(j, i)}) = k - 1
          IN [key |-> gs[g], row_count |-> n(g)]]

\* the text of a value in the WHERE clause: NULL for None, str(value) otherwise
_format_value(value) ==
    IF IsNull(value) THEN [null |-> TRUE, digits |-> <<>>]
    ELSE [null |-> FALSE, digits |-> CastVarchar(value[1])]

\* the number a digit string denotes in SQL
RECURSIVE DigitsValue(_)
DigitsValue(ds) ==
    IF Len(ds) = 1 THEN ds[1]
    ELSE 10 * DigitsValue(SubSeq(ds, 1, Len(ds) - 1)) + ds[Len(ds)]

\* WHERE "k" = <literal>: true for a non-NULL cell equal to a number; "k" = NULL is never true
SqlEqualsLiteral(cell, literal) ==
    ~literal.null /\ ~IsNull(cell) /\ cell[1] = DigitsValue(literal.digits)

\* " AND ".join(f'"{k}" = {self._format_value(v)}' for k, v in group_key.items())
Conditions(group_key, group_columns) ==
    [j \in 1..Len(group_columns) |->
        [column |-> group_columns[j], literal |-> _format_value(group_key[group_columns[j]])]]

\* the rows that pass WHERE conditions
FilterRows(tbl, conditions) ==
    {i \in 1..Len(tbl) :
        \A j \in 1..Len(conditions) :
          SqlEqualsLiteral(tbl[i][conditions[j].column], conditions[j].literal)}

\* _GroupColumn.null_percent: (COUNT(*) - COUNT(col)) * 100.0 / NULLIF(COUNT(*), 0), None -> 0.0
GroupColumn_null_percent(tbl, c, conditions) ==
    LET rows == FilterRows(tbl, conditions)
    IN Percent(Cardinality({i \in rows : IsNull(tbl[i][c])}), Cardinality(rows))

\* _GroupColumn.count: COUNT(col) within the group
GroupColumn_count(tbl, c, conditions) ==
    Cardinality({i \in FilterRows(tbl, conditions) : ~IsNull(tbl[i][c])})

\* _GroupColumn.between
GroupColumn_between(tbl, c, conditions, min_val, max_val) ==
    LET out_of_range ==
            Cardinality({i \in FilterRows(tbl, conditions) :
                            ~IsNull(tbl[i][c]) /\ (tbl[i][c][1] < min_val \/ tbl[i][c][1] > max_val)})
    IN ValidationResult(out_of_range = 0, PyInt(out_of_range), <<"values outside range", "">>,
                        <<>>, 0)

\* the check functions handed to validate:
\*   "between":      lambda col: col.between(0, 0)
\*   "null_percent": lambda col: col.null_percent < 5
\*   "per_value":    lambda col: 1 / col.count <= 1   (ZeroDivisionError on a group without values)
CheckFns == {"between", "null_percent", "per_value"}

check_fn_call(check_fn, tbl, c, conditions) ==
    CASE check_fn = "between" -> Return(GroupColumn_between(tbl, c, conditions, 0, 0))
      [] check_fn = "null_percent" ->
           LET np == GroupColumn_null_percent(tbl, c, conditions)
           IN Return(PyBool(np.n < 5 * np.d))
      [] check_fn = "per_value" ->
           IF GroupColumn_count(tbl, c, conditions) = 0
           THEN Raise("division by zero")
           ELSE Return(PyBool(TRUE))

\* isinstance(result, ValidationResult)
IsValidationResult(v) == "passed" \in DOMAIN v

\* the body of the loop of validate that yields the group's ValidationResult
GroupCheck(tbl, column, conditions, check_fn, row_count) ==
    IF column # None
    THEN LET r == check_fn_call(check_fn, tbl, column[1], conditions)
         IN IF r.raised
            THEN ValidationResult(FALSE, PyNone, <<"Check error", r.exc>>, <<>>, 0)
            ELSE IF IsValidationResult(r.val) THEN r.val
            ELSE ValidationResult(r.val.n # 0, r.val,
                                  IF r.val.n # 0 THEN <<"Custom check passed", "">>
                                  ELSE <<"Custom check failed", "">>, <<>>, 0)
    ELSE ValidationResult(TRUE, PyInt(row_count), <<"No column check specified", "">>, <<>>, 0)

GroupResult(group_key, row_count, passed, check_results) ==
    [group_key |-> group_key, row_count |-> row_count, passed |-> passed,
     check_results |-> check_results]

GroupByResult(passed, total_groups, passed_groups, failed_groups, group_results, group_columns) ==
    [passed |-> passed, total_groups |-> total_groups, passed_groups |-> passed_groups,
     failed_groups |-> failed_groups, group_results |-> group_results,
     group_columns |-> group_columns]

\* the GroupResult of the i-th group of validate
ValidateGroup(tbl, group_columns, check_fn, column, group_key) ==
    LET conditions == Conditions(group_key, group_columns)
        row_count == Cardinality(FilterRows(tbl, conditions))
        result == GroupCheck(tbl, column, conditions, check_fn, row_count)
    IN GroupResult(group_key, row_count, result.passed, <<result>>)

\* the summary both methods build from group_results and passed_count
Summarize(group_results, group_columns) ==
    LET passed_groups == Cardinality({i \in 1..Len(group_results) : group_results[i].passed})
        total_groups == Len(group_results)
    IN GroupByResult(passed_groups = total_groups, total_groups, passed_groups,
                     total_groups - passed_groups, group_results, group_columns)

\* variant: the loop over the groups ends at the first group whose check raised
validate_stopAtError(tbl, group_columns, check_fn, column) ==
    LET gs == groups(tbl, group_columns)
        evaluated ==
            [i \in 1..Len(gs) |-> ValidateGroup(tbl, group_columns, check_fn, column, gs[i])]
        errors == {i \in 1..Len(gs) : evaluated[i].check_results[1].message[1] = "Check error"}
        last == IF errors = {} THEN Len(gs) ELSE SetMin(errors)
    IN Summarize(SubSeq(evaluated, 1, last), group_columns)

\* GroupedDataset.validate(check_fn, column)
validate(tbl, group_columns, check_fn, column) ==
    LET gs == groups(tbl, group_columns)
        group_results ==
            [i \in 1..Len(gs) |-> ValidateGroup(tbl, group_columns, check_fn, column, gs[i])]
    IN Summarize(group_results, group_columns)

\* GroupedDataset.row_count_greater_than(min_count)
row_count_greater_than(tbl, group_columns, min_count) ==
    LET st == stats(tbl, group_columns)
        group_results ==
            [i \in 1..Len(st) |->
                LET row_count == st[i].row_count
                    passed == row_count > min_count
                IN GroupResult(st[i].key, row_count, passed,
                               <<ValidationResult(passed, PyInt(row_count),
                                                  <<"row_count", "">>, <<>>, 0)>>)]
    IN Summarize(group_results, group_columns)

\* the column lists of group_by and the arguments of the calls
GroupColumnLists == {<<"a">>, <<"a", "b">>}
MinCounts == {0, 1}

GroupCall(method, group_columns, check_fn, column, min_count) ==
    [method |-> method, group_columns |-> group_columns, check_fn |-> check_fn,
     column |-> column, min_count |-> min_count]

InitGroup ==
    /\ data \in Tables
    /\ grpCall = NoGroupCall
    /\ grpOut = <<>>
    /\ InitOther({"group"})

\* dataset.group_by(group_columns).validate(check_fn, column=column)
CallValidate ==
    /\ grpCall = NoGroupCall
    /\ \E group_columns \in GroupColumnLists, check_fn \in CheckFns, column \in {None, Some("b")} :
         /\ grpCall' = GroupCall("validate", group_columns, check_fn, column, 0)
         /\ grpOut' = <<validate(data, group_columns, check_fn, column)>>
    /\ UNCHANGED data

\* dataset.group_by(group_columns).row_count_greater_than(min_count)
CallRowCountGreaterThan ==
    /\ grpCall = NoGroupCall
    /\ \E group_columns \in GroupColumnLists, min_count \in MinCounts :
         /\ grpCall' = GroupCall("row_count_greater_than", group_columns, "", None, min_count)
         /\ grpOut' = <<row_count_greater_than(data, group_columns, min_count)>>
    /\ UNCHANGED data

\* dataset.group_by(group_columns).stats()
CallGroupStats ==
    /\ grpCall = NoGroupCall
    /\ \E group_columns \in GroupColumnLists :
         /\ grpCall' = GroupCall("stats", group_columns, "", None, 0)
         /\ grpOut' = <<stats(data, group_columns)>>
    /\ UNCHANGED data

NextGroup ==
    \/ (CallValidate /\ UNCHANGED <<execVars, cacheVars, cmpVars, statVars, valVars, recVars, gradeVars, driftVars>>)
    \/ (CallRowCountGreaterThan /\ UNCHANGED <<execVars, cacheVars, cmpVars, statVars, valVars, recVars, gradeVars, driftVars>>)
    \/ (CallGroupStats /\ UNCHANGED <<execVars, cacheVars, cmpVars, statVars, valVars, recVars, gradeVars, driftVars>>)

SpecGroup == InitGroup /\ [][NextGroup]_vars

\* the distinct key tuples of the dataset under the latest call's group columns
DistinctKeys == {KeyValues(data[i], grpCall.group_columns) : i \in 1..Len(data)}

\* what check_fn does on the group of a key: returns a verdict or raises
CheckFnOn(group_key) ==
    check_fn_call(grpCall.check_fn, data, grpCall.column[1],
                  Conditions(group_key, grpCall.group_columns))

Verdict(v) == IF IsValidationResult(v) THEN v.passed ELSE v.n # 0

\* C21: validate(check_fn, column) returns exactly one GroupResult per distinct
\* key tuple of the dataset; a group for which check_fn raises has a failing
\* result that carries the error, every other group has the verdict check_fn
\* gave for it, passed_groups + failed_groups = total_groups, and passed holds
\* exactly when failed_groups = 0.
Thm_C21_OneResultPerGroup ==
    (grpCall.method = "validate" /\ grpCall.column # None) =>
      LET r == grpOut[1]
          res == r.group_results
      IN /\ Len(res) = Cardinality(DistinctKeys)
         /\ {res[i].group_key : i \in 1..Len(res)} = DistinctKeys
         /\ \A i \in 1..Len(res) :
              LET call == CheckFnOn(res[i].group_key)
                  result == res[i].check_results[1]
              IN /\ Len(res[i].check_results) = 1
                 /\ res[i].passed = result.passed
                 /\ call.raised => (~result.passed /\ result.message = <<"Check error", call.exc>>)
                 /\ ~call.raised => result.passed = Verdict(call.val)
         /\ r.total_groups = Len(res)
         /\ r.passed_groups = Cardinality({i \in 1..Len(res) : res[i].passed})
         /\ r.passed_groups + r.failed_groups = r.total_groups
         /\ r.passed <=> r.failed_groups = 0

\* check_fn raised for one group and a later group was evaluated and passed
Wit_C21_RaisedThenPassed ==
    /\ grpCall.method = "validate"
    /\ grpCall.column # None
    /\ \E i, j \in 1..Len(grpOut[1].group_results) :
         /\ i < j
         /\ grpOut[1].group_results[i].check_results[1].message[1] = "Check error"
         /\ grpOut[1].group_results[j].passed
    /\ grpOut[1].failed_groups = 1
    /\ ~grpOut[1].passed

\* sum of the row counts of group results
RECURSIVE SumRowCounts(_)
SumRowCounts(res) == IF res = <<>> THEN 0 ELSE res[1].row_count + SumRowCounts(Tail(res))

\* C30: every GroupResult.row_count of validate is the number of dataset rows
\* that carry the group's key, a NULL key included; the row counts add up to
\* the dataset's row count and equal the counts that stats() and
\* row_count_greater_than report for the same key.
Cex_C30_GroupRowCounts ==
    grpCall.method = "validate" =>
      LET res == grpOut[1].group_results
          cols == grpCall.group_columns
          st == stats(data, cols)
          gt == row_count_greater_than(data, cols, 0).group_results
      IN /\ \A i \in 1..Len(res) :
              /\ res[i].row_count = Cardinality(GroupRows(data, cols, res[i].group_key))
              /\ \E k \in 1..Len(st) :
                    st[k].key = res[i].group_key /\ st[k].row_count = res[i].row_count
              /\ \E k \in 1..Len(gt) :
                    gt[k].group_key = res[i].group_key /\ gt[k].row_count = res[i].row_count
         /\ SumRowCounts(res) = get_row_count(data)


====
